---- MODULE Spec2Model ----
(***************************************************************************)
(* BDO patch bot: the report store (database.py), its date normaliser,     *)
(* the ingestion loop and the notification loop (main.py).                 *)
(*                                                                         *)
(* Text is a sequence of one-character strings, so that parsing and        *)
(* formatting are computed, character by character, as the code does.      *)
(***************************************************************************)
EXTENDS Integers, Sequences, FiniteSets, TLC

(***************************************************************************)
(* Characters and text                                                     *)
(***************************************************************************)
Digits == <<"0", "1", "2", "3", "4", "5", "6", "7", "8", "9">>

IsDigit(c) == \E i \in 1..10 : Digits[i] = c

DigitVal(c) == (CHOOSE i \in 1..10 : Digits[i] = c) - 1

\* \s of the regular expressions and of str.strip()
IsSpace(c) == c = " "

\* the code point order of the characters a stored date is made of:
\* "-" (45) sorts before "0".."9" (48..57)
CharOrd(c) == IF c = "-" THEN 45 ELSE 48 + DigitVal(c)

\* SQLite's BINARY collation on two TEXT values: a < b
RECURSIVE TextLess(_, _)
TextLess(a, b) ==
    IF b = <<>> THEN FALSE
    ELSE IF a = <<>> THEN TRUE
    ELSE IF CharOrd(Head(a)) # CharOrd(Head(b))
         THEN CharOrd(Head(a)) < CharOrd(Head(b))
    ELSE TextLess(Tail(a), Tail(b))

\* int() of a run of digits
RECURSIVE IntOf(_)
IntOf(ds) ==
    IF ds = <<>> THEN 0
    ELSE 10 * IntOf(SubSeq(ds, 1, Len(ds) - 1)) + DigitVal(ds[Len(ds)])

Uppers == <<"A", "B", "C", "D", "E", "F", "G", "H", "I", "J", "K", "L", "M",
            "N", "O", "P", "Q", "R", "S", "T", "U", "V", "W", "X", "Y", "Z">>

Lowers == <<"a", "b", "c", "d", "e", "f", "g", "h", "i", "j", "k", "l", "m",
            "n", "o", "p", "q", "r", "s", "t", "u", "v", "w", "x", "y", "z">>

\* str.lower() on one character (re.IGNORECASE compares through it)
Lower(c) ==
    IF \E i \in 1..26 : Uppers[i] = c
    THEN Lowers[CHOOSE i \in 1..26 : Uppers[i] = c]
    ELSE c

\* str.isalpha() on one character
IsAlpha(c) == \E i \in 1..26 : Uppers[i] = c \/ Lowers[i] = c

LowerText(s) == [i \in 1..Len(s) |-> Lower(s[i])]

\* str.strip()
RECURSIVE LStrip(_)
LStrip(s) == IF s # <<>> /\ IsSpace(Head(s)) THEN LStrip(Tail(s)) ELSE s

RECURSIVE RStrip(_)
RStrip(s) ==
    IF s # <<>> /\ IsSpace(s[Len(s)]) THEN RStrip(SubSeq(s, 1, Len(s) - 1)) ELSE s

Strip(s) == RStrip(LStrip(s))

\* the character at position i, "" past the end
At(s, i) == IF i >= 1 /\ i <= Len(s) THEN s[i] ELSE ""

\* the number of spaces from position i on
RECURSIVE SpacesAt(_, _)
SpacesAt(s, i) == IF IsSpace(At(s, i)) THEN 1 + SpacesAt(s, i + 1) ELSE 0

(***************************************************************************)
(* Calendar                                                                *)
(***************************************************************************)
IsLeap(y) == (y % 4 = 0 /\ y % 100 # 0) \/ y % 400 = 0

DaysInMonth(y, m) ==
    IF m = 2 THEN (IF IsLeap(y) THEN 29 ELSE 28)
    ELSE IF m \in {4, 6, 9, 11} THEN 30 ELSE 31

\* datetime(year, month, day) raises ValueError unless this holds
\* (datetime.MINYEAR is 1 and datetime.MAXYEAR is 9999)
ValidDate(y, m, d) ==
    /\ y >= 1 /\ y <= 9999
    /\ m >= 1 /\ m <= 12
    /\ d >= 1 /\ d <= DaysInMonth(y, m)

\* the decimal digits of n, without padding
RECURSIVE DigitsOf(_)
DigitsOf(n) ==
    IF n < 10 THEN <<Digits[n + 1]>>
    ELSE DigitsOf(n \div 10) \o <<Digits[(n % 10) + 1]>>

\* %m and %d of strftime: two digits, zero padded
Pad2(n) == IF n < 10 THEN <<"0">> \o DigitsOf(n) ELSE DigitsOf(n)

\* parsed.strftime('%Y-%m-%d'); %Y is the year's digits as the C library
\* prints them, which is four digits for every year from 1000 on
strftime(dt) == DigitsOf(dt[1]) \o <<"-">> \o Pad2(dt[2]) \o <<"-">> \o Pad2(dt[3])

\* the value None of Optional[str], and of a failed parse
None == <<>>

(***************************************************************************)
(* datetime.strptime: the directives' regular expressions of _strptime,    *)
(* each returning the number of characters it matches at i (0: no match)   *)
(***************************************************************************)
\* %Y: \d\d\d\d
MatchY(s, i) ==
    IF \A k \in 0..3 : IsDigit(At(s, i + k)) THEN 4 ELSE 0

\* %m: 1[0-2]|0[1-9]|[1-9]
MatchM(s, i) ==
    IF At(s, i) = "1" /\ At(s, i + 1) \in {"0", "1", "2"} THEN 2
    ELSE IF At(s, i) = "0" /\ IsDigit(At(s, i + 1)) /\ At(s, i + 1) # "0" THEN 2
    ELSE IF IsDigit(At(s, i)) /\ At(s, i) # "0" THEN 1
    ELSE 0

\* %d: 3[01]|[12]\d|0[1-9]|[1-9]| [1-9]
MatchD(s, i) ==
    IF At(s, i) = "3" /\ At(s, i + 1) \in {"0", "1"} THEN 2
    ELSE IF At(s, i) \in {"1", "2"} /\ IsDigit(At(s, i + 1)) THEN 2
    ELSE IF At(s, i) = "0" /\ IsDigit(At(s, i + 1)) /\ At(s, i + 1) # "0" THEN 2
    ELSE IF IsDigit(At(s, i)) /\ At(s, i) # "0" THEN 1
    ELSE IF At(s, i) = " " /\ IsDigit(At(s, i + 1)) /\ At(s, i + 1) # "0" THEN 2
    ELSE 0

\* the number a matched %m or %d stands for (int() ignores the blank)
FieldVal(s, i, n) == IntOf(SelectSeq(SubSeq(s, i, i + n - 1), IsDigit))

\* 'jan' .. 'dec', in the order of the months
MonthNames ==
    << <<"j", "a", "n">>, <<"f", "e", "b">>, <<"m", "a", "r">>,
       <<"a", "p", "r">>, <<"m", "a", "y">>, <<"j", "u", "n">>,
       <<"j", "u", "l">>, <<"a", "u", "g">>, <<"s", "e", "p">>,
       <<"o", "c", "t">>, <<"n", "o", "v">>, <<"d", "e", "c">> >>

\* the month whose abbreviation stands at i, whatever its case; 0 if none
MonthAt(s, i) ==
    LET w == LowerText(SubSeq(s, i, i + 2))
    IN  IF i + 2 <= Len(s) /\ \E m \in 1..12 : MonthNames[m] = w
        THEN CHOOSE m \in 1..12 : MonthNames[m] = w
        ELSE 0

\* datetime(y, m, d), or None where it raises
MakeDate(y, m, d) == IF ValidDate(y, m, d) THEN <<y, m, d>> ELSE None

\* strptime(s, '%Y<sep>%m<sep>%d'): the whole of s must match
StrptimeYMD(s, sep) ==
    LET ly == MatchY(s, 1)
        lm == MatchM(s, 6)
        ld == MatchD(s, 7 + lm)
    IN  IF /\ ly = 4 /\ At(s, 5) = sep
           /\ lm > 0 /\ At(s, 6 + lm) = sep
           /\ ld > 0 /\ Len(s) = 6 + lm + ld
        THEN MakeDate(IntOf(SubSeq(s, 1, 4)), FieldVal(s, 6, lm),
                      FieldVal(s, 7 + lm, ld))
        ELSE None

\* strptime(s, '%m/%d/%Y')
StrptimeMDY(s) ==
    LET lm == MatchM(s, 1)
        ld == MatchD(s, 2 + lm)
        py == 3 + lm + ld
    IN  IF /\ lm > 0 /\ At(s, 1 + lm) = "/"
           /\ ld > 0 /\ At(s, 2 + lm + ld) = "/"
           /\ MatchY(s, py) = 4 /\ Len(s) = py + 3
        THEN MakeDate(IntOf(SubSeq(s, py, py + 3)), FieldVal(s, 1, lm),
                      FieldVal(s, 2 + lm, ld))
        ELSE None

\* strptime(s, '%b %d, %Y'): a blank of the format matches \s+
StrptimeBDY(s) ==
    LET mo == MonthAt(s, 1)
        s1 == SpacesAt(s, 4)
        pd == 4 + s1
        ld == MatchD(s, pd)
        s2 == SpacesAt(s, pd + ld + 1)
        py == pd + ld + 1 + s2
    IN  IF /\ mo > 0 /\ s1 > 0
           /\ ld > 0 /\ At(s, pd + ld) = ","
           /\ s2 > 0 /\ MatchY(s, py) = 4 /\ Len(s) = py + 3
        THEN MakeDate(IntOf(SubSeq(s, py, py + 3)), mo, FieldVal(s, pd, ld))
        ELSE None

\* the loop over formats: the first format that parses wins
TryFormats(s) ==
    LET r == << StrptimeYMD(s, "-"), StrptimeYMD(s, "."), StrptimeBDY(s),
                StrptimeYMD(s, "/"), StrptimeMDY(s) >>
    IN  IF \E k \in 1..5 : r[k] # None
        THEN r[CHOOSE k \in 1..5 : r[k] # None /\ \A j \in 1..(k - 1) : r[j] = None]
        ELSE None

(***************************************************************************)
(* The three regular expressions of _parse_date, searched with re.search:  *)
(* the groups of the leftmost match, or None                               *)
(***************************************************************************)
\* \d{1,2} at i, greedy: the number of digits taken
Match12(s, i) ==
    IF IsDigit(At(s, i)) /\ IsDigit(At(s, i + 1)) THEN 2
    ELSE IF IsDigit(At(s, i)) THEN 1
    ELSE 0

\* (\d{4})[.-](\d{1,2})[.-](\d{1,2}) matched at i
YearFirstAt(s, i) ==
    LET lm == Match12(s, i + 5)
        ld == Match12(s, i + 6 + lm)
    IN  IF /\ MatchY(s, i) = 4 /\ At(s, i + 4) \in {".", "-"}
           /\ lm > 0 /\ At(s, i + 5 + lm) \in {".", "-"}
           /\ ld > 0
        THEN << SubSeq(s, i, i + 3), SubSeq(s, i + 5, i + 4 + lm),
                SubSeq(s, i + 6 + lm, i + 5 + lm + ld) >>
        ELSE None

\* (\d{1,2})[/-](\d{1,2})[/-](\d{4}) matched at i: the first group gives a
\* digit back when two digits are not followed by the separator
YearLastAt(s, i) ==
    LET la == IF Match12(s, i) = 2 /\ At(s, i + 2) \in {"/", "-"} THEN 2
              ELSE IF Match12(s, i) >= 1 /\ At(s, i + 1) \in {"/", "-"} THEN 1
              ELSE 0
        lb == Match12(s, i + la + 1)
        py == i + la + lb + 2
    IN  IF /\ la > 0
           /\ lb > 0 /\ At(s, i + la + 1 + lb) \in {"/", "-"}
           /\ MatchY(s, py) = 4
        THEN << SubSeq(s, i, i + la - 1), SubSeq(s, i + la + 1, i + la + lb),
                SubSeq(s, py, py + 3) >>
        ELSE None

\* (Aug|Jul|...)\s+(\d{1,2}),?\s+(\d{4}) matched at i, ignoring case
MonthNameAt(s, i) ==
    LET s1 == SpacesAt(s, i + 3)
        pd == i + 3 + s1
        ld == Match12(s, pd)
        pc == pd + ld
        lc == IF At(s, pc) = "," THEN 1 ELSE 0
        s2 == SpacesAt(s, pc + lc)
        py == pc + lc + s2
    IN  IF /\ MonthAt(s, i) > 0 /\ s1 > 0 /\ ld > 0 /\ s2 > 0
           /\ MatchY(s, py) = 4
        THEN << SubSeq(s, i, i + 2), SubSeq(s, pd, pd + ld - 1),
                SubSeq(s, py, py + 3) >>
        ELSE None

\* the k-th of the three patterns at i
PatternAt(k, s, i) ==
    IF k = 1 THEN YearFirstAt(s, i)
    ELSE IF k = 2 THEN YearLastAt(s, i)
    ELSE MonthNameAt(s, i)

\* re.search of the k-th pattern: the match at the leftmost position that
\* has one
Search(k, s) ==
    IF \E i \in 1..Len(s) : PatternAt(k, s, i) # None
    THEN PatternAt(k, s, CHOOSE i \in 1..Len(s) :
                      PatternAt(k, s, i) # None
                          /\ \A j \in 1..(i - 1) : PatternAt(k, s, j) = None)
    ELSE None

IsDigits(w) == w # <<>> /\ \A k \in 1..Len(w) : IsDigit(w[k])

\* the body of the loop over patterns for one match: the date, or None
\* where datetime() raises (the loop then goes on to the next pattern)
GroupsDate(groups) ==
    IF Len(groups[1]) >= 4 /\ IsDigits(SubSeq(groups[1], 1, 4))
    THEN MakeDate(IntOf(groups[1]), IntOf(groups[2]), IntOf(groups[3]))
    ELSE IF IsDigits(groups[3]) /\ Len(groups[3]) = 4
    THEN IF \A k \in 1..Len(groups[1]) : IsAlpha(groups[1][k])
         THEN MakeDate(IntOf(groups[3]), MonthAt(groups[1], 1), IntOf(groups[2]))
         ELSE MakeDate(IntOf(groups[3]), IntOf(groups[1]), IntOf(groups[2]))
    ELSE None

PatternDate(groups) == IF groups = None THEN None ELSE GroupsDate(groups)

\* the loop over patterns: the first pattern whose match gives a date
TryPatterns(s) ==
    LET r == << PatternDate(Search(1, s)),
                PatternDate(Search(2, s)),
                PatternDate(Search(3, s)) >>
    IN  IF \E k \in 1..3 : r[k] # None
        THEN r[CHOOSE k \in 1..3 : r[k] # None /\ \A j \in 1..(k - 1) : r[j] = None]
        ELSE None

(***************************************************************************)
(* The last resort of _parse_date: the numbers of the text                 *)
(***************************************************************************)
\* re.findall(r'\d+', s): the maximal runs of digits, from position i on
RECURSIVE DigitRun(_, _)
DigitRun(s, i) == IF IsDigit(At(s, i)) THEN 1 + DigitRun(s, i + 1) ELSE 0

RECURSIVE FindNumbers(_, _)
FindNumbers(s, i) ==
    IF i > Len(s) THEN <<>>
    ELSE IF IsDigit(s[i])
    THEN <<SubSeq(s, i, i + DigitRun(s, i) - 1)>> \o FindNumbers(s, i + DigitRun(s, i))
    ELSE FindNumbers(s, i + 1)

\* one turn of the loop over numbers, for numbers[i] > 2000
NumberDate(numbers, i) ==
    LET num == numbers[i]
        unequal(x) == x # num
        remaining == SelectSeq(numbers, unequal)
        month == IF Len(remaining) >= 2 THEN IntOf(remaining[1]) ELSE 0
        day == IF Len(remaining) >= 2 THEN IntOf(remaining[2]) ELSE 0
    IN  IF Len(remaining) >= 2
        THEN IF month > 12 THEN MakeDate(IntOf(num), day, month)
             ELSE MakeDate(IntOf(num), month, day)
        ELSE None

TryNumbers(s) ==
    LET numbers == FindNumbers(s, 1)
        hit(i) == IntOf(numbers[i]) > 2000 /\ NumberDate(numbers, i) # None
    IN  IF Len(numbers) >= 3 /\ \E i \in 1..Len(numbers) : hit(i)
        THEN NumberDate(numbers, CHOOSE i \in 1..Len(numbers) :
                                     hit(i) /\ \A j \in 1..(i - 1) : ~hit(j))
        ELSE None

\* BotDatabase._parse_date: the text of the date as YYYY-MM-DD, or None
_parse_date(date_str) ==
    LET s == Strip(date_str)
        f == TryFormats(s)
        p == TryPatterns(s)
        n == TryNumbers(s)
    IN  IF date_str = <<>> THEN None
        ELSE IF f # None THEN strftime(f)
        ELSE IF p # None THEN strftime(p)
        ELSE IF n # None THEN strftime(n)
        ELSE None

(***************************************************************************)
(* State                                                                   *)
(***************************************************************************)
VARIABLES
    ai_reports,      \* the rows of table ai_reports
    seq,             \* the largest id AUTOINCREMENT has handed out
    server_configs,  \* the rows of table server_configs
    now,             \* the clock CURRENT_TIMESTAMP reads, in seconds
    ret,             \* the call made to the database and what it returned
    upserted,        \* history: the <<source, patch_id>> stored so far
    ai_analysis_loop,   \* where ai_analysis_loop stands, and its locals
    notification_loop,  \* where notification_loop stands, and its locals
    cycles,          \* the runs of ai_analysis_loop started so far
    run,             \* history: what the current run of ai_analysis_loop did
    prev_run,        \* history: what the run before it did
    delivered        \* history: the messages sent, by report and guild

storeVars == <<ai_reports, seq, server_configs, now>>

loopVars == <<ai_analysis_loop, notification_loop, cycles, run, prev_run,
              delivered>>

\* the two monitored sources, as main.py names them
Sources == {"Global Labs", "Korean Notice"}

\* a row of ai_reports for one stored report
NewRow(id, patch_data, report_filename, source) ==
    [ id              |-> id,
      source          |-> source,
      patch_id        |-> patch_data.id,
      title           |-> patch_data.title,
      date            |-> patch_data.date,
      parsed_date     |-> _parse_date(patch_data.date),
      link            |-> patch_data.link,
      report_filename |-> report_filename,
      generated_at    |-> now,
      is_notified     |-> FALSE,
      patch_data      |-> patch_data ]

\* the table without UNIQUE(source, patch_id): no row conflicts
Conflicting_NoUnique(source, patch_id) == {}

\* a constraint UNIQUE(source): every row of the source conflicts
Conflicting_BySource(source, patch_id) == {r \in ai_reports : r.source = source}

\* the rows UNIQUE(source, patch_id) makes INSERT OR REPLACE delete
Conflicting(source, patch_id) ==
    {r \in ai_reports : r.source = source /\ r.patch_id = patch_id}

\* the statement as INSERT OR IGNORE: a row that conflicts stays
store_ai_report_Ignore(patch_data, report_filename, source, ok, result) ==
    IF ok
    THEN /\ ai_reports' =
             IF Conflicting(source, patch_data.id) = {}
             THEN ai_reports \cup {NewRow(seq + 1, patch_data, report_filename, source)}
             ELSE ai_reports
         /\ seq' = seq + 1
         /\ result = TRUE
    ELSE /\ UNCHANGED <<ai_reports, seq>>
         /\ result = FALSE

\* a write that fails after its row is in the table
store_ai_report_Partial(patch_data, report_filename, source, ok, result) ==
    /\ ai_reports' = (ai_reports \ Conflicting(source, patch_data.id))
                       \cup {NewRow(seq + 1, patch_data, report_filename, source)}
    /\ seq' = seq + 1
    /\ result = ok

\* BotDatabase.store_ai_report: ok is whether the storage works, result is
\* what the call returns
store_ai_report(patch_data, report_filename, source, ok, result) ==
    IF ok
    THEN /\ ai_reports' = (ai_reports \ Conflicting(source, patch_data.id))
                            \cup {NewRow(seq + 1, patch_data, report_filename, source)}
         /\ seq' = seq + 1
         /\ result = TRUE
    ELSE /\ UNCHANGED <<ai_reports, seq>>
         /\ result = FALSE

(***************************************************************************)
(* The ordered reads                                                       *)
(***************************************************************************)
\* the date a report without parsed date is ordered by: '1900-01-01'
\* a sentinel above every date
SentinelDate_Max == <<"9", "9", "9", "9", "-", "1", "2", "-", "3", "1">>

SentinelDate == <<"1", "9", "0", "0", "-", "0", "1", "-", "0", "1">>

\* CASE WHEN parsed_date IS NOT NULL THEN parsed_date ELSE '1900-01-01' END
OrderDate(r) == IF r.parsed_date # None THEN r.parsed_date ELSE SentinelDate

\* ORDER BY <the CASE> DESC, generated_at DESC, id DESC: a comes before b
RanksBefore(a, b) ==
    \/ TextLess(OrderDate(b), OrderDate(a))
    \/ /\ OrderDate(a) = OrderDate(b)
       /\ \/ a.generated_at > b.generated_at
          \/ a.generated_at = b.generated_at /\ a.id > b.id

\* the rows of a set in that order
RECURSIVE Ordered(_)
Ordered(rows) ==
    IF rows = {} THEN <<>>
    ELSE LET first == CHOOSE r \in rows : \A q \in rows \ {r} : RanksBefore(r, q)
         IN  <<first>> \o Ordered(rows \ {first})

OfSource(source) == {r \in ai_reports : r.source = source}

\* the dictionary the ordered reads build from a row
ReportDict(r) ==
    [ patch_id        |-> r.patch_id,
      title           |-> r.title,
      date            |-> r.date,
      link            |-> r.link,
      report_filename |-> r.report_filename,
      generated_at    |-> r.generated_at,
      patch_data      |-> r.patch_data,
      parsed_date     |-> r.parsed_date ]

\* LIMIT n OFFSET k on a result: a negative LIMIT is no limit, a negative
\* OFFSET is no offset
LimitOffset(rows, n, k) ==
    LET from == IF k < 0 THEN 1 ELSE k + 1
        upto == IF n < 0 \/ from - 1 + n > Len(rows) THEN Len(rows) ELSE from - 1 + n
    IN  SubSeq(rows, from, upto)

Dicts(rows) == [i \in 1..Len(rows) |-> ReportDict(rows[i])]

\* BotDatabase.get_latest_report: <<the report>>, or None (also on an error)
get_latest_report(source, ok) ==
    IF ok THEN Dicts(LimitOffset(Ordered(OfSource(source)), 1, 0)) ELSE None

\* the index taken as the offset itself
get_report_by_index_NoShift(source, index, ok) ==
    IF ok THEN Dicts(LimitOffset(Ordered(OfSource(source)), 1, index)) ELSE None

\* BotDatabase.get_report_by_index
get_report_by_index(source, index, ok) ==
    IF ok THEN Dicts(LimitOffset(Ordered(OfSource(source)), 1, index - 1)) ELSE None

\* the query without its LIMIT
get_all_reports_NoLimit(source, limit, ok) ==
    IF ok THEN Dicts(Ordered(OfSource(source))) ELSE <<>>

\* BotDatabase.get_all_reports
get_all_reports(source, limit, ok) ==
    IF ok THEN Dicts(LimitOffset(Ordered(OfSource(source)), limit, 0)) ELSE <<>>

\* BotDatabase.count_reports
count_reports(source, ok) == IF ok THEN Cardinality(OfSource(source)) ELSE 0

\* the check that finds every notice new
is_report_new_Always(source, patch_id, ok) == TRUE

\* the check answering False on an error
is_report_new_Closed(source, patch_id, ok) ==
    IF ok
    THEN {r \in ai_reports : r.source = source /\ r.patch_id = patch_id} = {}
    ELSE FALSE

\* BotDatabase.is_report_new: on an error the answer is True
is_report_new(source, patch_id, ok) ==
    IF ok
    THEN {r \in ai_reports : r.source = source /\ r.patch_id = patch_id} = {}
    ELSE TRUE

(***************************************************************************)
(* The notification flag                                                   *)
(***************************************************************************)
\* the UPDATE without patch_id in its WHERE
mark_report_notified_Source(source, patch_id, ok, result) ==
    IF ok
    THEN /\ ai_reports' =
             {IF r.source = source
              THEN [r EXCEPT !.is_notified = TRUE] ELSE r : r \in ai_reports}
         /\ result = TRUE
    ELSE /\ UNCHANGED ai_reports
         /\ result = FALSE

\* the UPDATE without a WHERE
mark_report_notified_All(source, patch_id, ok, result) ==
    IF ok
    THEN /\ ai_reports' = {[r EXCEPT !.is_notified = TRUE] : r \in ai_reports}
         /\ result = TRUE
    ELSE /\ UNCHANGED ai_reports
         /\ result = FALSE

\* the call answering True whatever the storage did
mark_report_notified_Quiet(source, patch_id, ok, result) ==
    IF ok
    THEN /\ ai_reports' =
             {IF r.source = source /\ r.patch_id = patch_id
              THEN [r EXCEPT !.is_notified = TRUE] ELSE r : r \in ai_reports}
         /\ result = TRUE
    ELSE /\ UNCHANGED ai_reports
         /\ result = TRUE

\* BotDatabase.mark_report_notified: ok is whether the storage works,
\* result is what the call returns
mark_report_notified(source, patch_id, ok, result) ==
    IF ok
    THEN /\ ai_reports' =
             {IF r.source = source /\ r.patch_id = patch_id
              THEN [r EXCEPT !.is_notified = TRUE] ELSE r : r \in ai_reports}
         /\ result = TRUE
    ELSE /\ UNCHANGED ai_reports
         /\ result = FALSE

\* the dictionary get_unnotified_reports builds from a row
PendingDict(r) ==
    [ source          |-> r.source,
      patch_id        |-> r.patch_id,
      title           |-> r.title,
      report_filename |-> r.report_filename,
      patch_data      |-> r.patch_data ]

\* ORDER BY generated_at ASC: every order of the rows in which generated_at
\* never decreases (the engine is free in the order of rows that tie)
RECURSIVE OrderedAsc(_)
OrderedAsc(rows) ==
    IF rows = {} THEN {<<>>}
    ELSE UNION {{<<r>> \o t : t \in OrderedAsc(rows \ {r})} :
                r \in {x \in rows : \A q \in rows : x.generated_at <= q.generated_at}}

Unnotified == {r \in ai_reports : r.is_notified = FALSE}

\* the query with ORDER BY generated_at DESC
get_unnotified_reports_Desc(ok) ==
    IF ok
    THEN {[i \in 1..Len(rows) |-> PendingDict(rows[Len(rows) + 1 - i])] :
              rows \in OrderedAsc(Unnotified)}
    ELSE {<<>>}

\* the query without ORDER BY: the rows in any order
get_unnotified_reports_Unordered(ok) ==
    IF ok
    THEN {[i \in 1..Len(rows) |-> PendingDict(rows[i])] :
              rows \in {q \in [1..Cardinality(Unnotified) -> Unnotified] :
                           \A i, j \in 1..Cardinality(Unnotified) :
                               q[i] = q[j] => i = j}}
    ELSE {<<>>}

\* BotDatabase.get_unnotified_reports: the results the call can give
get_unnotified_reports(ok) ==
    IF ok
    THEN {[i \in 1..Len(rows) |-> PendingDict(rows[i])] : rows \in OrderedAsc(Unnotified)}
    ELSE {<<>>}

(***************************************************************************)
(* Server configuration                                                    *)
(***************************************************************************)
\* the rows INSERT OR REPLACE deletes: guild_id is the primary key
ConfigOf(guild_id) == {c \in server_configs : c.guild_id = guild_id}

\* BotDatabase.set_patch_channel: the statement names no language, so the
\* new row has the column's default, 'en'; the call returns ok
set_patch_channel(guild_id, channel_id, ok, result) ==
    IF ok
    THEN /\ server_configs' = (server_configs \ ConfigOf(guild_id))
             \cup {[guild_id |-> guild_id, patch_channel_id |-> <<channel_id>>,
                    language |-> "en"]}
         /\ result = TRUE
    ELSE /\ UNCHANGED server_configs
         /\ result = FALSE

\* BotDatabase.set_language: the statement names no patch_channel_id, so
\* the new row has NULL there; the call returns ok
set_language(guild_id, language, ok, result) ==
    IF ok
    THEN /\ server_configs' = (server_configs \ ConfigOf(guild_id))
             \cup {[guild_id |-> guild_id, patch_channel_id |-> None,
                    language |-> language]}
         /\ result = TRUE
    ELSE /\ UNCHANGED server_configs
         /\ result = FALSE

\* the rows of a set of configurations by guild_id, as the table is scanned
RECURSIVE ByGuild(_)
ByGuild(rows) ==
    IF rows = {} THEN <<>>
    ELSE LET first == CHOOSE c \in rows : \A d \in rows : c.guild_id <= d.guild_id
         IN  <<first>> \o ByGuild(rows \ {first})

\* the query with LIMIT 1
get_all_configured_servers_First(ok) ==
    IF ok
    THEN LET rows == ByGuild({c \in server_configs : c.patch_channel_id # None})
         IN  [i \in 1..(IF rows = <<>> THEN 0 ELSE 1) |->
                 [guild_id   |-> rows[i].guild_id,
                  channel_id |-> rows[i].patch_channel_id[1],
                  language   |-> rows[i].language]]
    ELSE <<>>

\* BotDatabase.get_all_configured_servers
get_all_configured_servers(ok) ==
    IF ok
    THEN LET rows == ByGuild({c \in server_configs : c.patch_channel_id # None})
         IN  [i \in 1..Len(rows) |->
                 [guild_id   |-> rows[i].guild_id,
                  channel_id |-> rows[i].patch_channel_id[1],
                  language   |-> rows[i].language]]
    ELSE <<>>

(***************************************************************************)
(* The identity of a notice: BDOLinkExtractor._generate_stable_id          *)
(***************************************************************************)
\* the characters of the links
UrlChars == Lowers \o Uppers \o Digits \o <<":", "/", "?", "&", "=", "_", ".", "-">>

\* the code of a character in the digest below
UrlCode(c) == CHOOSE i \in 1..Len(UrlChars) : UrlChars[i] = c

HexDigits == Digits \o <<"a", "b", "c", "d", "e", "f">>

\* hashlib.md5(url.encode()).hexdigest()[:12], as a digest of the same
\* kind with three hexadecimal digits: a number every character of the text
\* goes into, the same for the same text
RECURSIVE Digest(_)
Digest(url) ==
    IF url = <<>> THEN 0
    ELSE (31 * Digest(SubSeq(url, 1, Len(url) - 1)) + UrlCode(url[Len(url)])) % (16 * 16 * 16)

HexDigest(url) ==
    LET n == Digest(url)
    IN  <<HexDigits[(n \div (16 * 16)) + 1], HexDigits[((n \div 16) % 16) + 1],
          HexDigits[(n % 16) + 1]>>

\* "name=" at position j, letters compared as re.IGNORECASE compares them
KeyAt(name, s, j) ==
    /\ j + Len(name) <= Len(s)
    /\ LowerText(SubSeq(s, j, j + Len(name) - 1)) = LowerText(name)
    /\ s[j + Len(name)] = "="

\* [?&]_?name=(\d+) or [?&]name=(\d+) matched at position i: group 1, or
\* None when there is no match at i
TokenAt(name, underscore, s, i) ==
    LET j == IF underscore /\ At(s, i + 1) = "_" THEN i + 2 ELSE i + 1
        d == j + Len(name) + 1
    IN  IF At(s, i) \in {"?", "&"} /\ KeyAt(name, s, j)
        THEN SubSeq(s, d, d + DigitRun(s, d) - 1)
        ELSE None

\* re.search: group 1 of the leftmost match from position i on, or None
RECURSIVE SearchToken(_, _, _, _)
SearchToken(name, underscore, s, i) ==
    IF i > Len(s) THEN None
    ELSE LET token == TokenAt(name, underscore, s, i)
         IN  IF token # None THEN token ELSE SearchToken(name, underscore, s, i + 1)

boardNo == <<"b", "o", "a", "r", "d", "N", "o">>
groupContentNo == <<"g", "r", "o", "u", "p", "C", "o", "n", "t", "e", "n", "t", "N", "o">>

\* the address of a notice page, without its query
UrlBase == <<"h", "t", "t", "p", "s", ":", "/", "/", "k", "r", "/", "n">>

\* "k1=v1&k2=v2" of a sequence of parameters
RECURSIVE Query(_)
Query(params) ==
    IF Len(params) = 1 THEN params[1].key \o <<"=">> \o params[1].value
    ELSE params[1].key \o <<"=">> \o params[1].value \o <<"&">> \o Query(Tail(params))

\* the link of a notice with the given query parameters
Url(params) == IF params = <<>> THEN UrlBase ELSE UrlBase \o <<"?">> \o Query(params)

Param(key, value) == [key |-> key, value |-> value]

utm == <<"u", "t", "m">>

\* an identity that is the digest of the link, whatever its parameters
_generate_stable_id_Digest(url, source, raises, time) ==
    <<source, "_", "url", "_">> \o HexDigest(url)

\* an identity that is the time of the call, whatever the link
_generate_stable_id_Clock(url, source, raises, time) ==
    <<source, "_", "error", "_">> \o DigitsOf(time)

\* BDOLinkExtractor._generate_stable_id; raises: the body raises (url is
\* not a text), time: int(time.time())
_generate_stable_id(url, source, raises, time) ==
    IF raises THEN <<source, "_", "error", "_">> \o DigitsOf(time)
    ELSE LET board_match == SearchToken(boardNo, TRUE, url, 1)
             group_match == SearchToken(groupContentNo, FALSE, url, 1)
         IN  IF board_match # None THEN <<source, "_">> \o board_match
             ELSE IF group_match # None THEN <<source, "_">> \o group_match
             ELSE <<source, "_", "url", "_">> \o HexDigest(url)

\* BDOLinkExtractor._extract_korean_link_data, for an element with a title
\* and a date whose link is full_url
_extract_korean_link_data(full_url) ==
    [id |-> _generate_stable_id(full_url, "korean", FALSE, 0), title |-> "title A",
     date |-> <<"2", "0", "2", "5", ".", "0", "8", ".", "0", "6">>, link |-> full_url,
     source |-> "Korean Notice"]

(***************************************************************************)
(* Inputs                                                                  *)
(***************************************************************************)
\* reports written in a run of the model
MaxSeq == 3
\* seconds the clock advances in a run of the model
MaxClock == 2
\* the same, where only the order of the reports is read
MaxOrderClock == 1
\* the largest index and limit the reads are called with
MaxIndex == 4

\* texts of a date as the listing pages show them
DateDots == <<"2", "0", "2", "5", ".", "0", "8", ".", "0", "6">>
DateName == <<"A", "u", "g", " ", "5", ",", " ", "2", "0", "2", "5">>
DateOld == <<"1", "8", "9", "9", "-", "1", "2", "-", "3", "1">>
DateGarbage == <<"u", "n", "p", "a", "r", "s", "e", "a", "b", "l", "e", "-",
                 "g", "a", "r", "b", "a", "g", "e">>

\* the identities of the notices
Korean1 == <<"korean", "_", "1">>
Korean2 == <<"korean", "_", "2">>
Korean3 == <<"korean", "_", "3">>
Global1 == <<"globallab", "_", "1">>

PatchIds(source) ==
    IF source = "Korean Notice" THEN {Korean1, Korean2, Korean3} ELSE {Global1}

\* the patch dictionary of a notice as the listing page shows it
Patch(source, id, title, date) ==
    [id |-> id, title |-> title, date |-> date, link |-> <<"url">> \o id,
     source |-> source]

\* notices of both sources, the first of them in two versions
StorePatches ==
    { Patch("Korean Notice", Korean1, "title A", DateDots),
      Patch("Korean Notice", Korean1, "title B", DateGarbage),
      Patch("Korean Notice", Korean2, "title A", DateDots),
      Patch("Global Labs", Global1, "title A", DateDots) }

\* notices of one source, with every pair of kinds of date
OrderPatches ==
    { Patch("Korean Notice", Korean1, "title A", DateDots),
      Patch("Korean Notice", Korean1, "title A", DateGarbage),
      Patch("Korean Notice", Korean2, "title A", DateOld),
      Patch("Korean Notice", Korean2, "title A", DateGarbage),
      Patch("Korean Notice", Korean3, "title A", DateDots),
      Patch("Korean Notice", Korean3, "title A", DateOld) }

\* BDOAIAnalyzer._save_report_to_file: the name is made of the source, the
\* identity and the time of writing
Filename(patch_data, at) == <<patch_data.source>> \o patch_data.id \o <<at>>

\* what happens in generate_deep_report: the report is written, the model's
\* call raises, the response has no text, or the file is not written
Outcomes == {"report", "raises", "empty", "not saved"}

\* BDOAIAnalyzer.generate_deep_report: the name of the file the report was
\* saved in, None in every other case
generate_deep_report(patch_data, outcome, at) ==
    IF outcome = "report" THEN Filename(patch_data, at) ELSE None

(***************************************************************************)
(* The database called by itself.  A call and its return are one step of   *)
(* the caller (the database is synchronous): ret holds what the call       *)
(* returned until the caller takes it.                                     *)
(***************************************************************************)
vars == <<ai_reports, seq, server_configs, now, ret, upserted, ai_analysis_loop,
          notification_loop, cycles, run, prev_run, delivered>>

Idle == ret.op = "none"

\* the guilds the bot is in, and the channel of each in which the
\* administrator types the commands
Guilds == {1, 2}
ChannelOf(guild_id) == guild_id + 10

\* the (source, patch id) of the notices
Keys == {k \in Sources \X {Korean1, Korean2, Korean3, Global1} : k[2] \in PatchIds(k[1])}

\* ai_analysis_loop between two runs
AiSleeping == [pc |-> "sleep", source |-> "none", patches |-> <<>>, i |-> 0]

\* notification_loop between two runs
\* no run of notification_loop was cut by a stop of the process
NoCut == [key |-> <<>>, served |-> {}]

NtSleeping ==
    [pc |-> "sleep", unnotified_reports |-> <<>>, configured_servers |-> <<>>,
     r |-> 0, s |-> 0, attempts |-> <<>>, registered |-> {}, storage |-> TRUE,
     read_at |-> <<>>, well |-> TRUE, cut |-> NoCut, marked |-> {}]

\* the history of a run of ai_analysis_loop: the listings it got, the keys
\* that were stored when it started, the number of its calls of the
\* analyzer, of its calls of store_ai_report by key, whether each of its
\* calls went well, and the last notice it came to
NoEvent == [source |-> "none"]
NoRun ==
    [harvest |-> <<>>, stored |-> {}, analyses |-> 0, upserts |-> [k \in Keys |-> 0],
     well |-> TRUE, last |-> NoEvent]

\* the database is new and both loops wait for their first run
Init ==
    /\ ai_reports = {}
    /\ seq = 0
    /\ server_configs = {}
    /\ now = 0
    /\ ret = [op |-> "none"]
    /\ upserted = {}
    /\ ai_analysis_loop = AiSleeping
    /\ notification_loop = NtSleeping
    /\ cycles = 0
    /\ run = NoRun
    /\ prev_run = NoRun
    /\ delivered = [t \in Keys \X Guilds |-> 0]

\* the caller takes the result
Return ==
    /\ ~Idle
    /\ ret' = [op |-> "none"]
    /\ UNCHANGED <<storeVars, upserted, loopVars>>

\* a second passes (seconds in which nothing is written are not counted)
Tick(max) ==
    /\ Idle
    /\ now < max
    /\ \E r \in ai_reports : r.generated_at = now
    /\ now' = now + 1
    /\ UNCHANGED <<ai_reports, seq, server_configs, ret, upserted, loopVars>>

StoreCall(patches) ==
    \E p \in patches, ok \in BOOLEAN, result \in BOOLEAN :
        /\ Idle
        /\ seq < MaxSeq
        /\ store_ai_report(p, Filename(p, now), p.source, ok, result)
        /\ ret' = [op |-> "store_ai_report", storage |-> ok, source |-> p.source, patch |-> p,
                   filename |-> Filename(p, now), val |-> result,
                   before |-> Conflicting(p.source, p.id)]
        /\ upserted' = IF result THEN upserted \cup {<<p.source, p.id>>} ELSE upserted
        /\ UNCHANGED <<server_configs, now, loopVars>>

MarkCall ==
    \E source \in Sources, ok \in BOOLEAN, result \in BOOLEAN :
        \E patch_id \in PatchIds(source) \ {Korean3} :
            /\ Idle
            /\ mark_report_notified(source, patch_id, ok, result)
            /\ ret' = [op |-> "mark_report_notified", storage |-> ok, source |-> source,
                       patch_id |-> patch_id, val |-> result,
                       before |-> Conflicting(source, patch_id)]
            /\ UNCHANGED <<seq, server_configs, now, upserted, loopVars>>

LatestCall ==
    \E source \in Sources, ok \in BOOLEAN :
        /\ Idle
        /\ ret' = [op |-> "get_latest_report", storage |-> ok, source |-> source,
                   val |-> get_latest_report(source, ok)]
        /\ UNCHANGED <<storeVars, upserted, loopVars>>

ByIndexCall ==
    \E source \in Sources, index \in 1..MaxIndex, ok \in BOOLEAN :
        /\ Idle
        /\ ret' = [op |-> "get_report_by_index", storage |-> ok, source |-> source, index |-> index,
                   val |-> get_report_by_index(source, index, ok)]
        /\ UNCHANGED <<storeVars, upserted, loopVars>>

AllCall ==
    \E source \in Sources, limit \in 0..MaxIndex, ok \in BOOLEAN :
        /\ Idle
        /\ ret' = [op |-> "get_all_reports", storage |-> ok, source |-> source, limit |-> limit,
                   val |-> get_all_reports(source, limit, ok)]
        /\ UNCHANGED <<storeVars, upserted, loopVars>>

CountCall ==
    \E source \in Sources, ok \in BOOLEAN :
        /\ Idle
        /\ ret' = [op |-> "count_reports", storage |-> ok, source |-> source,
                   val |-> count_reports(source, ok)]
        /\ UNCHANGED <<storeVars, upserted, loopVars>>

IsNewCall ==
    \E source \in Sources, ok \in BOOLEAN :
        \E patch_id \in PatchIds(source) \ {Korean3} :
            /\ Idle
            /\ ret' = [op |-> "is_report_new", storage |-> ok, source |-> source,
                       patch_id |-> patch_id,
                       val |-> is_report_new(source, patch_id, ok)]
            /\ UNCHANGED <<storeVars, upserted, loopVars>>

PendingCall ==
    \E ok \in BOOLEAN :
        \E val \in get_unnotified_reports(ok) :
            /\ Idle
            /\ ret' = [op |-> "get_unnotified_reports", storage |-> ok, val |-> val]
            /\ UNCHANGED <<storeVars, upserted, loopVars>>

\* the writes, the flag and the reads that do not order
NextStore ==
    \/ Return
    \/ Tick(MaxClock)
    \/ StoreCall(StorePatches)
    \/ MarkCall
    \/ IsNewCall
    \/ PendingCall

SpecStore == Init /\ [][NextStore]_vars

\* the writes and the ordered reads
NextOrder ==
    \/ Return
    \/ Tick(MaxOrderClock)
    \/ StoreCall(OrderPatches)
    \/ LatestCall
    \/ ByIndexCall
    \/ AllCall
    \/ CountCall

SpecOrder == Init /\ [][NextOrder]_vars

\* three notices of one source with a date in dots, a date with the name
\* of the month, and a text that is no date
ScenarioPatches ==
    { Patch("Korean Notice", Korean1, "title A", DateDots),
      Patch("Korean Notice", Korean2, "title A", DateName),
      Patch("Korean Notice", Korean3, "title A", DateGarbage) }

\* the writes of these notices, in any order, and get_all_reports
NextScenario ==
    \/ Return
    \/ Tick(MaxOrderClock)
    \/ StoreCall(ScenarioPatches)
    \/ AllCall

SpecScenario == Init /\ [][NextScenario]_vars

\* texts that are no date: a month and a day no calendar has, and no text
DateInvalid == <<"2", "0", "2", "5", ".", "1", "3", ".", "4", "5">>
DateEmpty == <<>>

\* notices with and without a date
ErrorPatches ==
    { Patch("Korean Notice", Korean1, "title A", DateDots),
      Patch("Korean Notice", Korean1, "title B", DateInvalid),
      Patch("Korean Notice", Korean2, "title A", DateGarbage),
      Patch("Global Labs", Global1, "title A", DateEmpty) }

\* every operation on the reports, with and without a storage error
NextErrors ==
    \/ Return
    \/ Tick(MaxOrderClock)
    \/ StoreCall(ErrorPatches)
    \/ MarkCall
    \/ LatestCall
    \/ ByIndexCall
    \/ AllCall
    \/ CountCall
    \/ PendingCall

SpecErrors == Init /\ [][NextErrors]_vars

\* the most numbers a text of a date is made of
MaxNumbers == 4

\* the numbers of the texts
Numbers ==
    { <<"2", "0", "2", "5">>, <<"2", "0", "2", "4">>, <<"1", "9", "9", "9">>,
      <<"2", "9">>, <<"2">> }

\* the text of the numbers with the separator between them
RECURSIVE Joined(_, _)
Joined(numbers, sep) ==
    IF Len(numbers) = 0 THEN <<>>
    ELSE IF Len(numbers) = 1 THEN numbers[1]
    ELSE numbers[1] \o <<sep>> \o Joined(Tail(numbers), sep)

\* a call of _parse_date with a text of two to MaxNumbers numbers, blanks or
\* dots between them
ParseCall ==
    /\ Idle
    /\ \E n \in 2..MaxNumbers, sep \in {" ", "."} :
           \E numbers \in [1..n -> Numbers] :
               ret' = [op |-> "_parse_date", date_str |-> Joined(numbers, sep),
                       val |-> _parse_date(Joined(numbers, sep))]
    /\ UNCHANGED <<storeVars, upserted, loopVars>>

\* the normalisation of dates by itself
NextParse ==
    \/ Return
    \/ ParseCall

SpecParse == Init /\ [][NextParse]_vars

(***************************************************************************)
(* The two loops.  Both run on one event loop: a loop runs from one await  *)
(* to its next without the other running, so a step of one loop is taken  *)
(* only while the other stands at an await or sleeps.                      *)
(***************************************************************************)
\* runs of ai_analysis_loop in a run of the model
MaxCycles == 2

\* what a listing page can give: nothing (also on an error), or its notices
KoreanPatch1 == Patch("Korean Notice", Korean1, "title A", DateDots)
KoreanPatch2 == Patch("Korean Notice", Korean2, "title A", DateName)
GlobalPatch1 == Patch("Global Labs", Global1, "title A", DateDots)

\* the listings the two loops are run with: one notice, of the second source
Listings ==
    [source \in Sources |->
        IF source = "Global Labs" THEN {<<>>}
        ELSE {<<>>, <<KoreanPatch1>>}]

\* the listings the ingestion is run with by itself: a notice can be listed
\* twice, and two notices can be listed
ListingsIngest ==
    [source \in Sources |->
        IF source = "Global Labs" THEN {<<>>, <<GlobalPatch1>>}
        ELSE {<<>>, <<KoreanPatch1>>, <<KoreanPatch1, KoreanPatch1>>,
              <<KoreanPatch1, KoreanPatch2>>}]

AiYielded == ai_analysis_loop.pc \in {"sleep", "extract", "analyze"}
NtYielded == notification_loop.pc \in {"sleep", "send"}

\* the history of the runs is kept (in cycles, run and prev_run) or not
Noted(keep, c, r, p) ==
    IF keep THEN cycles' = c /\ run' = r /\ prev_run' = p
    ELSE UNCHANGED <<cycles, run, prev_run>>

\* ai_analysis_loop is started by its timer and awaits the first listing
AiStart(keep) ==
    /\ ai_analysis_loop.pc = "sleep"
    /\ NtYielded
    /\ keep => cycles < MaxCycles
    /\ ai_analysis_loop' = [AiSleeping EXCEPT !.pc = "extract", !.source = "Global Labs"]
    /\ Noted(keep, cycles + 1,
                     [NoRun EXCEPT !.stored = {<<r.source, r.patch_id>> : r \in ai_reports}],
                     [run EXCEPT !.last = NoEvent])
    /\ UNCHANGED <<storeVars, ret, upserted, notification_loop, delivered>>

\* the loop with an empty listing ending the run, as a harvest that raised
\* into the loop would
AiExtracted_Abort(listings, keep) ==
    /\ ai_analysis_loop.pc = "extract"
    /\ NtYielded
    /\ \E patches \in listings[ai_analysis_loop.source] :
        /\ ai_analysis_loop' =
               IF patches = <<>> THEN AiSleeping
               ELSE [ai_analysis_loop EXCEPT !.pc = "for", !.patches = patches, !.i = 1]
        /\ Noted(keep, cycles, [run EXCEPT !.harvest = Append(@, patches)], prev_run)
        /\ UNCHANGED <<storeVars, ret, upserted, notification_loop, delivered>>

\* extract_global_lab_links or extract_korean_links returns
AiExtracted(listings, keep) ==
    /\ ai_analysis_loop.pc = "extract"
    /\ NtYielded
    /\ \E patches \in listings[ai_analysis_loop.source] :
        /\ ai_analysis_loop' = [ai_analysis_loop EXCEPT !.pc = "for", !.patches = patches,
                                                        !.i = 1]
        /\ Noted(keep, cycles, [run EXCEPT !.harvest = Append(@, patches)], prev_run)
        /\ UNCHANGED <<storeVars, ret, upserted, notification_loop, delivered>>

\* one turn of "for patch in ..." up to its await, or the end of the for
AiFor(keep) ==
    /\ ai_analysis_loop.pc = "for"
    /\ NtYielded
    /\ IF ai_analysis_loop.i > Len(ai_analysis_loop.patches)
       THEN /\ ai_analysis_loop' =
                  IF ai_analysis_loop.source = "Global Labs"
                  THEN [AiSleeping EXCEPT !.pc = "extract", !.source = "Korean Notice"]
                  ELSE AiSleeping
            /\ Noted(keep, cycles, run, prev_run)
       ELSE \E ok \in BOOLEAN :
                LET source == ai_analysis_loop.source
                    patch == ai_analysis_loop.patches[ai_analysis_loop.i]
                    new == is_report_new(source, patch.id, ok)
                IN  /\ ai_analysis_loop' =
                          IF new THEN [ai_analysis_loop EXCEPT !.pc = "analyze"]
                          ELSE [ai_analysis_loop EXCEPT !.i = @ + 1]
                    /\ Noted(keep, cycles,
                             [run EXCEPT
                                !.last = [source |-> source, patch_id |-> patch.id,
                                          check |-> ok,
                                          stored |-> Conflicting(source, patch.id) # {},
                                          analyzed |-> new, report |-> FALSE,
                                          upsert |-> FALSE, result |-> FALSE],
                                !.analyses = IF new THEN @ + 1 ELSE @,
                                !.well = @ /\ ok],
                             prev_run)
    /\ UNCHANGED <<storeVars, ret, upserted, notification_loop, delivered>>

\* the loop with a failed analysis ending the run, as an exception that
\* reaches the loop's except would
AiAnalyzed_Abort(keep) ==
    \E outcome \in Outcomes, ok \in BOOLEAN, result \in BOOLEAN :
        LET patch == ai_analysis_loop.patches[ai_analysis_loop.i]
            source == ai_analysis_loop.source
            report_filename == generate_deep_report(patch, outcome, now)
            report == report_filename # None
        IN  /\ ai_analysis_loop.pc = "analyze"
            /\ NtYielded
            /\ IF report
               THEN /\ seq < MaxSeq
                    /\ store_ai_report(patch, report_filename, source, ok, result)
                    /\ upserted' = IF result THEN upserted \cup {<<source, patch.id>>}
                                   ELSE upserted
               ELSE /\ ok /\ ~result
                    /\ UNCHANGED <<ai_reports, seq, upserted>>
            /\ Noted(keep, cycles,
                     [run EXCEPT !.last.report = report, !.last.upsert = report,
                                 !.last.result = report /\ result,
                                 !.upserts[<<source, patch.id>>] = IF report THEN @ + 1 ELSE @,
                                 !.well = @ /\ report /\ result],
                     prev_run)
            /\ ai_analysis_loop' = IF report
                                   THEN [ai_analysis_loop EXCEPT !.pc = "for", !.i = @ + 1]
                                   ELSE AiSleeping
            /\ UNCHANGED <<server_configs, now, ret, notification_loop, delivered>>

\* the loop without "if report_filename:": what generate_deep_report
\* returned is stored
AiAnalyzed_Unchecked(keep) ==
    \E outcome \in Outcomes, ok \in BOOLEAN, result \in BOOLEAN :
        LET patch == ai_analysis_loop.patches[ai_analysis_loop.i]
            source == ai_analysis_loop.source
            report_filename == generate_deep_report(patch, outcome, now)
            report == report_filename # None
        IN  /\ ai_analysis_loop.pc = "analyze"
            /\ NtYielded
            /\ seq < MaxSeq
            /\ store_ai_report(patch, report_filename, source, ok, result)
            /\ upserted' = IF result THEN upserted \cup {<<source, patch.id>>}
                           ELSE upserted
            /\ Noted(keep, cycles,
                     [run EXCEPT !.last.report = report, !.last.upsert = TRUE,
                                 !.last.result = result,
                                 !.upserts[<<source, patch.id>>] = @ + 1,
                                 !.well = @ /\ report /\ result],
                     prev_run)
            /\ ai_analysis_loop' = [ai_analysis_loop EXCEPT !.pc = "for", !.i = @ + 1]
            /\ UNCHANGED <<server_configs, now, ret, notification_loop, delivered>>

\* generate_deep_report returns a file name or None, and a file name is
\* stored with the notice
AiAnalyzed(keep) ==
    \E outcome \in Outcomes, ok \in BOOLEAN, result \in BOOLEAN :
        LET patch == ai_analysis_loop.patches[ai_analysis_loop.i]
            source == ai_analysis_loop.source
            report_filename == generate_deep_report(patch, outcome, now)
            report == report_filename # None
        IN  /\ ai_analysis_loop.pc = "analyze"
            /\ NtYielded
            /\ IF report
               THEN /\ seq < MaxSeq
                    /\ store_ai_report(patch, report_filename, source, ok, result)
                    /\ upserted' = IF result THEN upserted \cup {<<source, patch.id>>}
                                   ELSE upserted
               ELSE /\ ok /\ ~result
                    /\ UNCHANGED <<ai_reports, seq, upserted>>
            /\ Noted(keep, cycles,
                     [run EXCEPT !.last.report = report, !.last.upsert = report,
                                 !.last.result = report /\ result,
                                 !.upserts[<<source, patch.id>>] = IF report THEN @ + 1 ELSE @,
                                 !.well = @ /\ report /\ result],
                     prev_run)
            /\ ai_analysis_loop' = [ai_analysis_loop EXCEPT !.pc = "for", !.i = @ + 1]
            /\ UNCHANGED <<server_configs, now, ret, notification_loop, delivered>>

\* the guilds that have a channel for the reports
Registered == {c.guild_id : c \in {d \in server_configs : d.patch_channel_id # None}}

\* the row a dictionary of get_unnotified_reports is read from
ReadRow(dict) ==
    CHOOSE r \in ai_reports : r.source = dict.source /\ r.patch_id = dict.patch_id

\* notification_loop is started by its timer: it reads the reports that are
\* not notified and, if there are any, the servers; with no report (as
\* when the read fails) the run is over
NtStart ==
    \E ok \in BOOLEAN, storage \in BOOLEAN :
        \E unnotified_reports \in get_unnotified_reports(ok) :
            /\ notification_loop.pc = "sleep"
            /\ AiYielded
            /\ notification_loop' =
                   IF unnotified_reports = <<>>
                   THEN [NtSleeping EXCEPT !.cut = notification_loop.cut,
                                           !.marked = notification_loop.marked]
                   ELSE [pc |-> "for", unnotified_reports |-> unnotified_reports,
                         configured_servers |-> get_all_configured_servers(storage),
                         r |-> 1, s |-> 1, attempts |-> <<>>, registered |-> Registered,
                         storage |-> storage,
                         read_at |-> [i \in 1..Len(unnotified_reports) |->
                                         ReadRow(unnotified_reports[i]).generated_at],
                         well |-> TRUE, cut |-> notification_loop.cut,
                         marked |-> notification_loop.marked]
            /\ UNCHANGED <<storeVars, ret, upserted, ai_analysis_loop, cycles, run,
                           prev_run, delivered>>

\* the loop with the mark inside "if configured_servers:": a report is
\* marked only by a run that has servers
NtFor_Skip(keep) ==
    LET report == notification_loop.unnotified_reports[notification_loop.r]
        servers == notification_loop.configured_servers
    IN  /\ notification_loop.pc = "for"
        /\ AiYielded
        /\ IF notification_loop.s > Len(servers)
           THEN \E ok \in BOOLEAN, result \in BOOLEAN :
                    /\ IF servers = <<>> THEN UNCHANGED ai_reports
                       ELSE mark_report_notified(report.source, report.patch_id, ok, result)
                    /\ notification_loop' =
                           IF notification_loop.r = Len(notification_loop.unnotified_reports)
                           THEN [NtSleeping EXCEPT !.marked = notification_loop.marked]
                           ELSE [notification_loop EXCEPT !.r = @ + 1, !.s = 1,
                                                          !.attempts = <<>>]
           ELSE \E channel \in BOOLEAN :
                    /\ notification_loop' =
                           IF channel THEN [notification_loop EXCEPT !.pc = "send"]
                           ELSE [notification_loop EXCEPT !.s = @ + 1, !.attempts =
                                    Append(@, [guild_id |-> servers[notification_loop.s].guild_id,
                                               outcome |-> "no channel"])]
                    /\ UNCHANGED ai_reports
        /\ UNCHANGED <<seq, server_configs, now, ret, upserted, ai_analysis_loop, cycles,
                       run, prev_run, delivered>>

\* one turn of "for server_config in ..." up to its await, or the mark
\* that follows the for and the next report; the history of the marks is
\* kept (in marked: the reports mark_report_notified was called for) or not
NtFor(keep) ==
    LET report == notification_loop.unnotified_reports[notification_loop.r]
        servers == notification_loop.configured_servers
        marked == IF keep
                  THEN notification_loop.marked \cup {<<report.source, report.patch_id>>}
                  ELSE notification_loop.marked
    IN  /\ notification_loop.pc = "for"
        /\ AiYielded
        /\ IF notification_loop.s > Len(servers)
           THEN \E ok \in BOOLEAN, result \in BOOLEAN :
                    /\ mark_report_notified(report.source, report.patch_id, ok, result)
                    /\ notification_loop' =
                           IF notification_loop.r = Len(notification_loop.unnotified_reports)
                           THEN [NtSleeping EXCEPT !.marked = marked]
                           ELSE [notification_loop EXCEPT !.r = @ + 1, !.s = 1,
                                                          !.attempts = <<>>,
                                                          !.well = @ /\ result,
                                                          !.marked = marked]
           ELSE \E channel \in BOOLEAN :
                    /\ notification_loop' =
                           IF channel THEN [notification_loop EXCEPT !.pc = "send"]
                           ELSE [notification_loop EXCEPT !.s = @ + 1, !.attempts =
                                    Append(@, [guild_id |-> servers[notification_loop.s].guild_id,
                                               outcome |-> "no channel"])]
                    /\ UNCHANGED ai_reports
        /\ UNCHANGED <<seq, server_configs, now, ret, upserted, ai_analysis_loop, cycles,
                       run, prev_run, delivered>>

\* notify_new_ai_report returns: the message was sent, or the send raised;
\* the history of the messages is kept (in delivered) or not
NtNotified(keep) ==
    \E outcome \in {"sent", "failed"} :
        LET report == notification_loop.unnotified_reports[notification_loop.r]
            guild_id == notification_loop.configured_servers[notification_loop.s].guild_id
            t == <<<<report.source, report.patch_id>>, guild_id>>
        IN  /\ notification_loop.pc = "send"
            /\ AiYielded
            /\ delivered' = IF keep /\ outcome = "sent" /\ delivered[t] < 2
                            THEN [delivered EXCEPT ![t] = @ + 1] ELSE delivered
            /\ notification_loop' =
                   [notification_loop EXCEPT !.pc = "for", !.s = @ + 1, !.attempts =
                        Append(@, [guild_id |-> guild_id, outcome |-> outcome])]
            /\ UNCHANGED <<storeVars, ret, upserted, ai_analysis_loop, cycles, run,
                           prev_run>>

\* ConfigCommands.set_patch_channel: !usepatch in a channel of a guild
UsePatch ==
    \E guild_id \in Guilds, ok \in BOOLEAN, result \in BOOLEAN :
        /\ AiYielded /\ NtYielded
        /\ set_patch_channel(guild_id, ChannelOf(guild_id), ok, result)
        /\ UNCHANGED <<ai_reports, seq, now, ret, upserted, loopVars>>

\* ConfigCommands.set_language: !bdolan in a guild
Bdolan ==
    \E guild_id \in Guilds, ok \in BOOLEAN, result \in BOOLEAN :
        /\ AiYielded /\ NtYielded
        /\ set_language(guild_id, "ko", ok, result)
        /\ UNCHANGED <<ai_reports, seq, now, ret, upserted, loopVars>>

\* the ingestion by itself
NextIngest ==
    \/ AiStart(TRUE)
    \/ AiExtracted(ListingsIngest, TRUE)
    \/ AiFor(TRUE)
    \/ AiAnalyzed(TRUE)

SpecIngest == Init /\ [][NextIngest]_vars

\* the bot: both loops and the commands
Next ==
    \/ Tick(MaxOrderClock)
    \/ AiStart(FALSE)
    \/ AiExtracted(Listings, FALSE)
    \/ AiFor(FALSE)
    \/ AiAnalyzed(FALSE)
    \/ NtStart
    \/ NtFor(FALSE)
    \/ NtNotified(TRUE)
    \/ UsePatch
    \/ Bdolan

Spec == Init /\ [][Next]_vars

\* the history a cut run of notification_loop leaves: the report it was at,
\* not marked yet, and the guilds that report was sent to
CutOf(loop) ==
    IF loop.pc \in {"for", "send"}
    THEN [key |-> <<loop.unnotified_reports[loop.r].source,
                    loop.unnotified_reports[loop.r].patch_id>>,
          served |-> {loop.attempts[i].guild_id :
                         i \in {n \in 1..Len(loop.attempts) :
                                   loop.attempts[n].outcome = "sent"}}]
    ELSE loop.cut

\* a stop that leaves the report of the cut run marked
Crash_Marked ==
    /\ ai_analysis_loop' = AiSleeping
    /\ notification_loop' = [NtSleeping EXCEPT !.cut = CutOf(notification_loop),
                                                !.marked = notification_loop.marked]
    /\ ai_reports' = {IF <<r.source, r.patch_id>> = CutOf(notification_loop).key
                      THEN [r EXCEPT !.is_notified = TRUE] ELSE r : r \in ai_reports}
    /\ UNCHANGED <<seq, server_configs, now, ret, upserted, cycles, run, prev_run,
                   delivered>>

\* the process stops and is started again: the database file is as the last
\* commit left it, on_ready starts both loops anew
Crash ==
    /\ ai_analysis_loop' = AiSleeping
    /\ notification_loop' = [NtSleeping EXCEPT !.cut = CutOf(notification_loop),
                                                !.marked = notification_loop.marked]
    /\ UNCHANGED <<storeVars, ret, upserted, cycles, run, prev_run, delivered>>

\* both loops, the guilds registering, and the process stopping
NextCrash ==
    \/ AiStart(FALSE)
    \/ AiExtracted(Listings, FALSE)
    \/ AiFor(FALSE)
    \/ AiAnalyzed(FALSE)
    \/ NtStart
    \/ NtFor(FALSE)
    \/ NtNotified(FALSE)
    \/ UsePatch
    \/ Bdolan
    \/ Crash

SpecCrash == Init /\ [][NextCrash]_vars

\* both loops, the guilds registering, and the history of the marks
NextMark ==
    \/ AiStart(FALSE)
    \/ AiExtracted(Listings, FALSE)
    \/ AiFor(FALSE)
    \/ AiAnalyzed(FALSE)
    \/ NtStart
    \/ NtFor(TRUE)
    \/ NtNotified(FALSE)
    \/ UsePatch

SpecMark == Init /\ [][NextMark]_vars

\* a notice page, and the same page as a link with a tracking parameter
\* leads to it
KoreanLink == Url(<<Param(<<"_">> \o boardNo, <<"1">>)>>)
KoreanLinkTracked == Url(<<Param(utm, <<"a">>), Param(<<"_">> \o boardNo, <<"1">>)>>)

\* the listings with the notice under one of its links or under both
ListingsTracked ==
    [source \in Sources |->
        IF source = "Global Labs" THEN {<<>>}
        ELSE {<<>>,
              <<_extract_korean_link_data(KoreanLink)>>,
              <<_extract_korean_link_data(KoreanLinkTracked)>>,
              <<_extract_korean_link_data(KoreanLink),
                _extract_korean_link_data(KoreanLinkTracked)>>}]

\* ai_analysis_loop alone, with these listings
NextTracked ==
    \/ AiStart(TRUE)
    \/ AiExtracted(ListingsTracked, TRUE)
    \/ AiFor(TRUE)
    \/ AiAnalyzed(TRUE)

SpecTracked == Init /\ [][NextTracked]_vars

\* the listings with a notice of each source
ListingsTwo ==
    [source \in Sources |->
        IF source = "Global Labs" THEN {<<>>, <<GlobalPatch1>>}
        ELSE {<<>>, <<KoreanPatch1>>}]

\* both loops with two notices, and the guilds registering
NextNotify ==
    \/ Tick(MaxOrderClock)
    \/ AiStart(FALSE)
    \/ AiExtracted(ListingsTwo, FALSE)
    \/ AiFor(FALSE)
    \/ AiAnalyzed(FALSE)
    \/ NtStart
    \/ NtFor(FALSE)
    \/ NtNotified(FALSE)
    \/ UsePatch

SpecNotify == Init /\ [][NextNotify]_vars

\* the step of notification_loop in which mark_report_notified works for the
\* report of the key
MarkOf(key) ==
    /\ notification_loop.pc = "for"
    /\ notification_loop.s > Len(notification_loop.configured_servers)
    /\ <<notification_loop.unnotified_reports[notification_loop.r].source,
         notification_loop.unnotified_reports[notification_loop.r].patch_id>> = key
    /\ NtFor(FALSE)
    /\ \E r \in ai_reports' : <<r.source, r.patch_id>> = key /\ r.is_notified

\* the timer starts notification_loop again and again and its read works in
\* the end; a send returns; the code between two awaits runs to its end; the
\* mark of a report (of the two notices listed) works in the end
Scheduling ==
    /\ SF_vars(NtStart)
    /\ SF_vars(NtFor(FALSE))
    /\ SF_vars(NtNotified(FALSE))
    /\ WF_vars(AiFor(FALSE))
    /\ \A key \in {<<"Global Labs", Global1>>, <<"Korean Notice", Korean1>>} :
           SF_vars(MarkOf(key))

\* both loops with two notices and the guilds registering, at one time of
\* the clock
NextLive ==
    \/ AiStart(FALSE)
    \/ AiExtracted(ListingsTwo, FALSE)
    \/ AiFor(FALSE)
    \/ AiAnalyzed(FALSE)
    \/ NtStart
    \/ NtFor(FALSE)
    \/ NtNotified(FALSE)
    \/ UsePatch

\* the same with notification_loop scheduled
SpecLive == Init /\ [][NextLive]_vars /\ Scheduling

\* the ingestion by itself, with the history of its runs, and the process
\* stopping
NextAnalysis ==
    \/ AiStart(TRUE)
    \/ AiExtracted(ListingsTwo, TRUE)
    \/ AiFor(TRUE)
    \/ AiAnalyzed(TRUE)
    \/ Crash

SpecAnalysis == Init /\ [][NextAnalysis]_vars

(***************************************************************************)
(* The identity called by itself, on links built from their query          *)
(* parameters                                                              *)
(***************************************************************************)
\* seconds the clock advances between calls of _generate_stable_id
MaxTime == 2

\* the two tags the extractors call _generate_stable_id with
SourceTags == {"globallab", "korean"}

\* the query parameters of the links _generate_stable_id is called with
IdParams ==
    { <<>>,
      <<Param(utm, <<"a">>)>>,
      <<Param(utm, <<"b">>)>>,
      <<Param(boardNo, <<"1">>)>>,
      <<Param(<<"_">> \o boardNo, <<"1">>)>>,
      <<Param(LowerText(boardNo), <<"1">>)>>,
      <<Param(boardNo, <<"1", "2">>)>>,
      <<Param(boardNo, <<"1">>), Param(utm, <<"a">>)>>,
      <<Param(utm, <<"b">>), Param(<<"_">> \o boardNo, <<"1">>)>>,
      <<Param(groupContentNo, <<"1">>)>>,
      <<Param(groupContentNo, <<"2">>), Param(boardNo, <<"1">>)>>,
      <<Param(utm, <<"a">>), Param(groupContentNo, <<"1">>)>> }

\* no call of _generate_stable_id yet
NoCall == [params |-> <<>>, source |-> "none", raises |-> FALSE, at |-> 0, val |-> <<>>]

\* a call of _generate_stable_id; ret keeps the call and the one before it,
\* and is taken by the caller when it holds two
AssignCall ==
    \E params \in IdParams, source \in SourceTags, raises \in BOOLEAN :
        /\ Idle \/ (ret.op = "_generate_stable_id" /\ ret.prev = NoCall)
        /\ ret' = [op |-> "_generate_stable_id", params |-> params, source |-> source,
                   raises |-> raises, at |-> now,
                   val |-> _generate_stable_id(Url(params), source, raises, now),
                   prev |-> IF ret.op = "_generate_stable_id"
                            THEN [params |-> ret.params, source |-> ret.source,
                                  raises |-> ret.raises, at |-> ret.at, val |-> ret.val]
                            ELSE NoCall]
        /\ UNCHANGED <<storeVars, upserted, loopVars>>

\* time.time() advances: the next call is in a later scan
Clock ==
    /\ now < MaxTime
    /\ now' = now + 1
    /\ UNCHANGED <<ai_reports, seq, server_configs, ret, upserted, loopVars>>

NextIdentity ==
    \/ Return
    \/ AssignCall
    \/ Clock

SpecIdentity == Init /\ [][NextIdentity]_vars

(***************************************************************************)
(* Properties of the report store                                          *)
(***************************************************************************)
KeysOf(source) == {k \in upserted : k[1] = source}

\* C3: the store never holds two reports with the same (source, patch_id),
\* and count_reports(source) is the number of distinct patch ids that were
\* stored for the source.
C3_UniqueKey ==
    /\ \A r, q \in ai_reports :
           (r.source = q.source /\ r.patch_id = q.patch_id) => r = q
    /\ \A source \in Sources :
           count_reports(source, TRUE) = Cardinality(KeysOf(source))

\* a report was stored a second time under its key, and another report
\* of the same source is there as well
C3_Witness ==
    /\ ret.op = "store_ai_report" /\ ret.val /\ ret.before # {}
    /\ count_reports(ret.source, TRUE) = 2

\* the last call stored, over an earlier report with another title, the
\* only notice its source has
SecondUpsert ==
    /\ ret.op = "store_ai_report" /\ ret.val
    /\ ret.before # {}
    /\ \A old \in ret.before : old.title # ret.patch.title
    /\ KeysOf(ret.source) = {<<ret.source, ret.patch.id>>}

\* C4: after a second upsert of a key with another title, count_reports is 1
\* and get_latest_report gives the title, date, link and file name of the
\* second upsert.
C4_SecondUpsertWins ==
    SecondUpsert =>
        /\ count_reports(ret.source, TRUE) = 1
        /\ Len(get_latest_report(ret.source, TRUE)) = 1
        /\ LET latest == get_latest_report(ret.source, TRUE)[1]
           IN  /\ latest.patch_id = ret.patch.id
               /\ latest.title = ret.patch.title
               /\ latest.date = ret.patch.date
               /\ latest.parsed_date = _parse_date(ret.patch.date)
               /\ latest.link = ret.patch.link
               /\ latest.report_filename = ret.filename

C4_Witness == SecondUpsert /\ ret.patch.title = "title B" /\ ret.patch.date = DateGarbage

\* every report of a source, in the order of get_all_reports
Listing(source) == get_all_reports(source, Cardinality(OfSource(source)), TRUE)

\* C5: in get_latest_report, get_report_by_index and get_all_reports a
\* report without parsed date never comes before a report of the same
\* source that has one.
C5_NullNeverOutranks ==
    \A source \in Sources :
        /\ \A i, j \in 1..Len(Listing(source)) :
               (Listing(source)[i].parsed_date = None
                    /\ Listing(source)[j].parsed_date # None) => j < i
        /\ \A i, j \in 1..Cardinality(OfSource(source)) :
               (get_report_by_index(source, i, TRUE)[1].parsed_date = None
                    /\ get_report_by_index(source, j, TRUE)[1].parsed_date # None)
                   => j < i
        /\ (\E r \in OfSource(source) : r.parsed_date # None)
               => get_latest_report(source, TRUE)[1].parsed_date # None

\* C6: get_report_by_index(source, 1) is get_latest_report(source), both
\* None when the source has no report, and the index after the last one
\* gives None.
C6_OffsetConsistency ==
    \A source \in Sources :
        /\ get_report_by_index(source, 1, TRUE) = get_latest_report(source, TRUE)
        /\ OfSource(source) = {} =>
               /\ get_latest_report(source, TRUE) = None
               /\ get_report_by_index(source, 1, TRUE) = None
        /\ OfSource(source) # {} => get_latest_report(source, TRUE) # None
        /\ get_report_by_index(source, count_reports(source, TRUE) + 1, TRUE) = None
        /\ (ret.op = "get_report_by_index" /\ ret.index = 1 /\ ret.source = source
                /\ ret.storage)
               => ret.val = get_latest_report(source, TRUE)

\* index 1 was read from a source that has three reports
C6_Witness ==
    /\ ret.op = "get_report_by_index" /\ ret.index = 1 /\ ret.val # None
    /\ count_reports(ret.source, TRUE) = 3

\* the order the specification gives: the date first, no date being the
\* earliest date, then generated_at, then the order of insertion
KeyGreater(a, b) ==
    \/ TextLess(b.parsed_date, a.parsed_date)
    \/ /\ a.parsed_date = b.parsed_date
       /\ \/ a.generated_at > b.generated_at
          \/ a.generated_at = b.generated_at /\ a.id > b.id

\* C7: get_latest_report gives the report with the greatest key (date, no
\* date being the earliest; generated_at; insertion), and None exactly when
\* the source has no report.
C7_LatestIsGreatest ==
    \A source \in Sources :
        IF OfSource(source) = {}
        THEN get_latest_report(source, TRUE) = None
        ELSE get_latest_report(source, TRUE) =
                 <<ReportDict(CHOOSE r \in OfSource(source) :
                                  \A q \in OfSource(source) \ {r} : KeyGreater(r, q))>>

\* the row a dictionary of a read was built from
RowOf(source, dict) ==
    CHOOSE r \in OfSource(source) : r.patch_id = dict.patch_id

PendingRow(dict) ==
    CHOOSE r \in ai_reports : r.source = dict.source /\ r.patch_id = dict.patch_id

\* C9: get_unnotified_reports gives exactly the reports, of all sources,
\* whose is_notified is false, each once, generated_at never decreasing
\* along the list; reports written at different times come in the order
\* they were written in.
C9_PendingOrder ==
    \A L \in get_unnotified_reports(TRUE) :
        /\ Len(L) = Cardinality(Unnotified)
        /\ {<<L[i].source, L[i].patch_id>> : i \in 1..Len(L)}
               = {<<r.source, r.patch_id>> : r \in Unnotified}
        /\ \A i \in 1..Len(L) : L[i] = PendingDict(PendingRow(L[i]))
        /\ \A i, j \in 1..Len(L) :
               i < j => PendingRow(L[i]).generated_at <= PendingRow(L[j]).generated_at
        /\ (\A r, q \in Unnotified : r # q => r.generated_at # q.generated_at)
               => \A i, j \in 1..Len(L) :
                      i < j => PendingRow(L[i]).id < PendingRow(L[j]).id

\* three reports of two sources written at three times, none notified,
\* were read
C9_Witness ==
    /\ ret.op = "get_unnotified_reports" /\ Len(ret.val) = 3
    /\ Cardinality(Unnotified) = 3
    /\ {r.generated_at : r \in ai_reports} = {0, 1, 2}
    /\ {r.source : r \in ai_reports} = Sources

\* C10: mark_report_notified changes nothing but is_notified of the report
\* it names: no other field, no other report, not the number of reports;
\* on a report that is notified already it changes nothing at all and
\* returns True.
C10_MarkIdempotent ==
    [][(ret'.op = "mark_report_notified" /\ Idle) =>
        /\ UNCHANGED <<seq, server_configs, now>>
        /\ Cardinality(ai_reports') = Cardinality(ai_reports)
        /\ \A r \in ai_reports :
               IF r.source = ret'.source /\ r.patch_id = ret'.patch_id
               THEN r \in ai_reports' \/ [r EXCEPT !.is_notified = TRUE] \in ai_reports'
               ELSE r \in ai_reports'
        /\ (\A r \in ret'.before : r.is_notified)
               => /\ ai_reports' = ai_reports
                  /\ ret'.storage => ret'.val = TRUE
        /\ ret'.val = TRUE
               => \A r \in ret'.before : [r EXCEPT !.is_notified = TRUE] \in ai_reports'
      ]_vars

\* a report that was notified already was marked again, beside a report
\* that is not notified
C10_Witness ==
    /\ ret.op = "mark_report_notified" /\ ret.val
    /\ ret.before # {} /\ \A r \in ret.before : r.is_notified
    /\ \E r \in ai_reports : ~r.is_notified

(***************************************************************************)
(* Properties of the two loops                                             *)
(***************************************************************************)
\* notification_loop stands before mark_report_notified for a report
BeforeMark ==
    /\ notification_loop.pc = "for"
    /\ notification_loop.s > Len(notification_loop.configured_servers)

\* the key of the report notification_loop is at
ReportKey ==
    LET report == notification_loop.unnotified_reports[notification_loop.r]
    IN  <<report.source, report.patch_id>>

\* the step of notification_loop that marks its report makes it notified
Marks ==
    /\ BeforeMark
    /\ notification_loop' # notification_loop
    /\ \E r \in ai_reports' : <<r.source, r.patch_id>> = ReportKey /\ r.is_notified

\* C1 as the specification has it: no report is sent twice to a guild, and
\* when a report becomes notified every guild that was registered when the
\* run read the servers has got it exactly once.
C1_ExactlyOnce ==
    /\ [](\A t \in DOMAIN delivered : delivered[t] <= 1)
    /\ [][Marks => \A guild_id \in notification_loop.registered :
                       delivered[<<ReportKey, guild_id>>] = 1]_vars

\* C1: in a run of notification_loop, before a report is marked, every
\* server of the list the run read has had its one turn, in the order of
\* the list and no guild twice: its channel was not found, or the report was
\* sent to it once, whether the send worked or not; if the read worked the
\* list is the guilds registered at that time; and the mark touches only
\* the flag of that report.
C1_AttemptedOnceBeforeMark ==
    [][(BeforeMark /\ notification_loop' # notification_loop) =>
        LET attempts == notification_loop.attempts
            servers == notification_loop.configured_servers
        IN  /\ Len(attempts) = Len(servers)
            /\ \A i \in 1..Len(attempts) :
                   /\ attempts[i].guild_id = servers[i].guild_id
                   /\ attempts[i].outcome \in {"no channel", "sent", "failed"}
            /\ \A i, j \in 1..Len(attempts) :
                   i # j => attempts[i].guild_id # attempts[j].guild_id
            /\ notification_loop.storage =>
                   {attempts[i].guild_id : i \in 1..Len(attempts)}
                       = notification_loop.registered
            /\ \A r \in ai_reports :
                   IF <<r.source, r.patch_id>> = ReportKey
                   THEN r \in ai_reports' \/ [r EXCEPT !.is_notified = TRUE] \in ai_reports'
                   ELSE r \in ai_reports'
            /\ UNCHANGED delivered
      ]_vars

\* a run with two servers in its list sent its report to the first, failed
\* to send it to the second, and stands before the mark
C1_Witness ==
    /\ BeforeMark
    /\ Len(notification_loop.attempts) = 2
    /\ notification_loop.attempts[1].outcome = "sent"
    /\ notification_loop.attempts[2].outcome = "failed"
    /\ notification_loop.registered = Guilds

\* the keys of the notices a run was given
Harvested(r) ==
    UNION {{<<r.harvest[n][i].source, r.harvest[n][i].id>> :
               i \in 1..Len(r.harvest[n])} : n \in 1..Len(r.harvest)}

\* a run has ended that was given the listings of the run before it
SecondRun ==
    /\ ai_analysis_loop.pc = "sleep"
    /\ cycles >= 2
    /\ run.harvest = prev_run.harvest

\* the first of the two runs called store_ai_report once for each notice
\* that was new to it, the second called neither the analyzer nor
\* store_ai_report
OnceThenNothing ==
    /\ \A k \in Harvested(prev_run) \ prev_run.stored : prev_run.upserts[k] = 1
    /\ run.analyses = 0
    /\ \A k \in Keys : run.upserts[k] = 0

\* C2 as the specification has it: of two runs with the same listings the
\* first stores each notice once and the second calls neither the analyzer
\* nor the store.
C2_Idempotent == SecondRun => OnceThenNothing

\* C2: the analyzer is called for a notice only if the notice is not
\* stored or the check of it failed on the storage, and the store is
\* written only after an analysis that gave a report; so of two runs with
\* the same listings in which every check answered from the storage, and
\* in the first of which every analysis gave a report and every write
\* worked, the first stores each notice that was new to it once and the
\* second calls neither the analyzer nor the store.
C2_IdempotentWhenWell ==
    /\ run.last # NoEvent =>
           /\ run.last.analyzed => (~run.last.stored \/ ~run.last.check)
           /\ run.last.upsert => (run.last.analyzed /\ run.last.report)
    /\ (SecondRun /\ prev_run.well /\ run.well) => OnceThenNothing

\* two runs were given the same listings, with a notice of each source and
\* one of them listed twice; the first stored both, the second nothing
C2_Witness ==
    /\ SecondRun /\ prev_run.well /\ run.well
    /\ run.harvest = <<<<GlobalPatch1>>, <<KoreanPatch1, KoreanPatch1>>>>
    /\ prev_run.stored = {}
    /\ prev_run.upserts[<<"Global Labs", Global1>>] = 1
    /\ prev_run.upserts[<<"Korean Notice", Korean1>>] = 1
    /\ run.analyses = 0

\* the keys of the reports that are not notified
PendingKeys == {<<r.source, r.patch_id>> : r \in Unnotified}

\* the keys of the list notification_loop read
ProcessedKeys ==
    {<<notification_loop.unnotified_reports[i].source,
       notification_loop.unnotified_reports[i].patch_id>> :
         i \in 1..Len(notification_loop.unnotified_reports)}

\* the step that ends a run of notification_loop in which every mark, the
\* last one included, returned True
CompletesWell ==
    /\ BeforeMark
    /\ notification_loop.r = Len(notification_loop.unnotified_reports)
    /\ notification_loop'.pc = "sleep"
    /\ notification_loop.well
    /\ \E r \in ai_reports' : <<r.source, r.patch_id>> = ReportKey /\ r.is_notified

\* C11: when a run of notification_loop ends in which every mark worked,
\* get_unnotified_reports gives none of the reports of the list the run
\* read at its start.
C11_ProcessedNotPending ==
    [][CompletesWell => (ProcessedKeys \cap PendingKeys' = {})]_vars

\* notification_loop is in a run, past its reads
InRun == notification_loop.pc \in {"for", "send"}

\* C12: in a run of notification_loop, a report that was generated before
\* another one of the list the run read stands before it in the list, and
\* the run goes through its list forward, a report's attempts and mark
\* before the next report's: every attempt for the older report is made
\* before any attempt for the newer one.
C12_AscendingDelivery ==
    [][InRun' =>
        /\ \A i, j \in 1..Len(notification_loop'.read_at) :
               notification_loop'.read_at[i] < notification_loop'.read_at[j] => i < j
        /\ InRun =>
               /\ notification_loop'.unnotified_reports = notification_loop.unnotified_reports
               /\ notification_loop'.read_at = notification_loop.read_at
               /\ notification_loop'.r \in {notification_loop.r, notification_loop.r + 1}
               /\ notification_loop'.r = notification_loop.r + 1 => BeforeMark
               /\ notification_loop'.pc = "send" =>
                      /\ notification_loop'.r = notification_loop.r
                      /\ notification_loop'.s = notification_loop.s]_vars

\* the run awaits the send of a report that was generated after the report
\* before it in the list
C12_Witness ==
    /\ notification_loop.pc = "send"
    /\ notification_loop.r = 2
    /\ notification_loop.read_at[1] < notification_loop.read_at[2]

\* the guilds of a list of server configurations
GuildsOf(servers) == {servers[i].guild_id : i \in 1..Len(servers)}

\* C13: when the process stops in a run of notification_loop before the
\* report the run is at is marked, the report stays among the reports that
\* are not notified while the loop sleeps; the next run whose read works has
\* it in its list, with every guild that is registered then in its list of
\* servers, the guilds the report was sent to before the stop included; and
\* that run makes an attempt for every server of its list before it marks
\* the report.
C13_RedeliveredAfterStop ==
    [][/\ (notification_loop'.pc = "sleep" /\ notification_loop'.cut # NoCut) =>
              notification_loop'.cut.key \in PendingKeys'
       /\ (notification_loop.pc = "sleep" /\ notification_loop.cut # NoCut
              /\ notification_loop'.pc = "for") =>
              /\ notification_loop.cut.key \in ProcessedKeys'
              /\ notification_loop'.storage =>
                     GuildsOf(notification_loop'.configured_servers) = Registered
       /\ (BeforeMark /\ ReportKey = notification_loop.cut.key
              /\ notification_loop' # notification_loop) =>
              /\ Len(notification_loop.attempts) = Len(notification_loop.configured_servers)
              /\ \A i \in 1..Len(notification_loop.attempts) :
                     notification_loop.attempts[i].guild_id =
                         notification_loop.configured_servers[i].guild_id]_vars

\* after a stop, the report of the cut run was sent again to a guild it had
\* been sent to before the stop, and is about to be marked
C13_Witness ==
    /\ BeforeMark
    /\ ReportKey = notification_loop.cut.key
    /\ \E i \in 1..Len(notification_loop.attempts) :
           /\ notification_loop.attempts[i].outcome = "sent"
           /\ notification_loop.attempts[i].guild_id \in notification_loop.cut.served

\* every server of the list has had its attempt, whatever the attempts gave
AllAttempted ==
    /\ Len(notification_loop.attempts) = Len(notification_loop.configured_servers)
    /\ \A i \in 1..Len(notification_loop.attempts) :
           notification_loop.attempts[i].guild_id =
               notification_loop.configured_servers[i].guild_id

\* a failed attempt is followed by the next server's turn or by the mark:
\* mark_report_notified is called when every server has had its attempt,
\* and changes nothing before
C14_FailureIsolated ==
    [][/\ (BeforeMark /\ notification_loop' # notification_loop) => AllAttempted
       /\ (InRun /\ InRun' /\ notification_loop'.r = notification_loop.r /\ ~BeforeMark) =>
              /\ notification_loop'.s \in {notification_loop.s, notification_loop.s + 1}
              /\ notification_loop'.marked = notification_loop.marked]_vars

\* C14: a failed attempt (no channel, or a send that raises) does not end
\* the turns of the servers after it, mark_report_notified is called when
\* every server of the list has had its attempt, also when every attempt
\* failed, and a report mark_report_notified was called for is in the list
\* of no later run.
C14_MarkedNeverRetried ==
    [][/\ (BeforeMark /\ notification_loop' # notification_loop) => AllAttempted
       /\ (notification_loop.pc = "sleep" /\ notification_loop'.pc = "for") =>
              ProcessedKeys' \cap notification_loop.marked = {}]_vars

\* the rows of a store with the key of a row
SameKey(rows, r) == {q \in rows : q.source = r.source /\ q.patch_id = r.patch_id}

\* C15: a report is stored with is_notified FALSE, the flag goes from FALSE
\* to TRUE by notification_loop's mark only, and a flag that is TRUE is
\* never FALSE again.
C15_FlagMonotone ==
    [][\A q \in ai_reports' :
          /\ SameKey(ai_reports, q) = {} => q.is_notified = FALSE
          /\ \A r \in SameKey(ai_reports, q) :
                 /\ (~r.is_notified /\ q.is_notified) =>
                        (BeforeMark /\ ReportKey = <<q.source, q.patch_id>>)
                 /\ r.is_notified => q.is_notified]_vars

\* C16: no operation on the reports removes one: count_reports of a source
\* never goes down, and a key that is stored stays stored, so is_report_new
\* (when its read works) keeps answering False for it.
C16_NeverRemoved ==
    [][/\ \A source \in Sources :
              count_reports(source, TRUE)' >= count_reports(source, TRUE)
       /\ \A r \in ai_reports :
              /\ SameKey(ai_reports', r) # {}
              /\ ~is_report_new(r.source, r.patch_id, TRUE)']_vars

\* a store has replaced the row of its key while the source has another
\* report, and both keys are there
C16_Witness ==
    /\ ret.op = "store_ai_report"
    /\ ret.val = TRUE
    /\ ret.before # {}
    /\ \E r, q \in ai_reports : r.source = q.source /\ r.patch_id # q.patch_id

(***************************************************************************)
(* Properties of the identity                                              *)
(***************************************************************************)
\* two calls of _generate_stable_id, one after the other, none of which
\* raised
TwoCalls ==
    /\ ret.op = "_generate_stable_id"
    /\ ret.prev # NoCall
    /\ ~ret.raises
    /\ ~ret.prev.raises

\* C17: two calls of _generate_stable_id with the same link and the same
\* source tag, at the same time or at different times, return the same
\* identity.
C17_Deterministic ==
    (TwoCalls /\ ret.params = ret.prev.params /\ ret.source = ret.prev.source) =>
        ret.val = ret.prev.val

\* the same link was given its identity at two different times, by its
\* digest
C17_Witness ==
    /\ TwoCalls
    /\ ret.params = <<Param(utm, <<"a">>)>>
    /\ ret.params = ret.prev.params
    /\ ret.source = ret.prev.source
    /\ ret.at > ret.prev.at
    /\ ret.val = <<ret.source, "_", "url", "_">> \o HexDigest(Url(ret.params))

\* ai_analysis_loop checks a notice, and the store has a report of the
\* source that was stored from the other of the two links
OtherLinkStored ==
    /\ ai_analysis_loop.pc = "for"
    /\ ai_analysis_loop.i <= Len(ai_analysis_loop.patches)
    /\ \E r \in ai_reports :
           /\ r.source = ai_analysis_loop.source
           /\ {r.link, ai_analysis_loop.patches[ai_analysis_loop.i].link} =
                  {KoreanLink, KoreanLinkTracked}

\* C18: two links of one source with the same board number that differ in
\* a tracking parameter only have the same identity, the source tag and
\* the number; and when the report of one of them is stored,
\* ai_analysis_loop, whose check answers from the store, goes past the
\* other without a call of the analyzer and without a write.
C18_TrackedSkipped ==
    [][(OtherLinkStored /\ ai_analysis_loop' # ai_analysis_loop /\ run'.last.check) =>
          /\ \A r \in ai_reports :
                 r.patch_id = ai_analysis_loop.patches[ai_analysis_loop.i].id
          /\ ai_analysis_loop.patches[ai_analysis_loop.i].id = <<"korean", "_", "1">>
          /\ ai_analysis_loop'.pc = "for"
          /\ ai_analysis_loop'.i = ai_analysis_loop.i + 1
          /\ run'.analyses = run.analyses
          /\ ~run'.last.analyzed
          /\ ai_reports' = ai_reports]_vars

\* a run stored the notice from its plain link and went past the link with
\* the tracking parameter
C18_Witness ==
    /\ ai_analysis_loop.pc = "for"
    /\ ai_analysis_loop.i = 3
    /\ ai_analysis_loop.patches = <<_extract_korean_link_data(KoreanLink),
                                    _extract_korean_link_data(KoreanLinkTracked)>>
    /\ run.stored = {}
    /\ run.analyses = 1
    /\ run.last.stored /\ ~run.last.analyzed
    /\ \E r \in ai_reports : r.link = KoreanLink

\* the first parameter of a query whose key is one of the given names
\* (letters compared without case), or None
FirstParam(params, names) ==
    IF \E i \in 1..Len(params) : LowerText(params[i].key) \in names
    THEN <<params[CHOOSE i \in 1..Len(params) :
                     /\ LowerText(params[i].key) \in names
                     /\ \A j \in 1..(i - 1) : LowerText(params[j].key) \notin names]>>
    ELSE None

\* the structured token of a link: the name and the number of its board
\* parameter or, without one, of its group content parameter
StructuredToken(params) ==
    LET board == FirstParam(params, {LowerText(boardNo), <<"_">> \o LowerText(boardNo)})
        group == FirstParam(params, {LowerText(groupContentNo)})
    IN  IF board # None THEN <<"boardNo", board[1].value>>
        ELSE IF group # None THEN <<"groupContentNo", group[1].value>>
        ELSE None

\* C19: two links of one source whose structured tokens differ, in the
\* number or in the name of the parameter, are given different identities.
C19_DistinctTokens ==
    (/\ TwoCalls
     /\ ret.source = ret.prev.source
     /\ StructuredToken(ret.params) # None
     /\ StructuredToken(ret.prev.params) # None
     /\ StructuredToken(ret.params) # StructuredToken(ret.prev.params)) =>
        ret.val # ret.prev.val

\* the part of C19 on the number: tokens with different numbers give
\* different identities
C19_DistinctNumbers ==
    (/\ TwoCalls
     /\ ret.source = ret.prev.source
     /\ StructuredToken(ret.params) # None
     /\ StructuredToken(ret.prev.params) # None
     /\ StructuredToken(ret.params)[2] # StructuredToken(ret.prev.params)[2]) =>
        ret.val # ret.prev.val

(***************************************************************************)
(* Properties of a failed analysis                                         *)
(***************************************************************************)
\* C20: when generate_deep_report gives no report, nothing is stored and
\* the loop goes on with the next notice of the listing; and a notice that
\* is not stored when the loop comes to it, as one whose analysis failed in
\* the run before, is given to the analyzer again.
C20_FailureRetried ==
    [][/\ (ai_analysis_loop.pc = "analyze" /\ ai_analysis_loop' # ai_analysis_loop
              /\ ~run'.last.report) =>
              /\ ai_reports' = ai_reports
              /\ seq' = seq
              /\ ai_analysis_loop' = [ai_analysis_loop EXCEPT !.pc = "for", !.i = @ + 1]
       /\ (ai_analysis_loop.pc = "for" /\ ai_analysis_loop' # ai_analysis_loop
              /\ ai_analysis_loop.i <= Len(ai_analysis_loop.patches)
              /\ Conflicting(ai_analysis_loop.source,
                             ai_analysis_loop.patches[ai_analysis_loop.i].id) = {}) =>
              ai_analysis_loop'.pc = "analyze"]_vars

\* the first run's analysis of the first notice of a listing gave nothing and
\* its analysis of the second was stored; the second run is at the analysis
\* of the first notice again
C20_Witness ==
    /\ cycles = 2
    /\ ai_analysis_loop.pc = "analyze"
    /\ ai_analysis_loop.patches = <<KoreanPatch1, KoreanPatch2>>
    /\ ai_analysis_loop.i = 1
    /\ prev_run.stored = {}
    /\ <<"Korean Notice", Korean1>> \in Harvested(prev_run)
    /\ prev_run.upserts[<<"Korean Notice", Korean1>>] = 0
    /\ prev_run.upserts[<<"Korean Notice", Korean2>>] = 1
    /\ {r.patch_id : r \in ai_reports} = {Korean2}

(***************************************************************************)
(* Properties of failures                                                  *)
(***************************************************************************)
\* a run of ai_analysis_loop has ended
RunEnded == ai_analysis_loop.pc = "sleep" /\ cycles >= 1

\* the keys of the reports in the store
StoredKeys == {<<r.source, r.patch_id>> : r \in ai_reports}

\* C21: a harvest that fails gives an empty listing and ends the work on
\* its source only: every run harvests both sources, whichever of them
\* gave nothing, and when the run's checks, analyses and writes worked,
\* every notice of the other source is stored at the end of the run.
C21_OtherSourceHarvested ==
    RunEnded =>
        /\ Len(run.harvest) = 2
        /\ run.well => Harvested(run) \subseteq StoredKeys

\* the harvest of Global Labs gave nothing and the run stored the two
\* notices of the Korean listing, which were new to it
C21_Witness ==
    /\ RunEnded
    /\ run.harvest = <<<<>>, <<KoreanPatch1, KoreanPatch2>>>>
    /\ run.stored = {}
    /\ run.well
    /\ run.analyses = 2
    /\ StoredKeys = {<<"Korean Notice", Korean1>>, <<"Korean Notice", Korean2>>}

\* the key of the notice ai_analysis_loop is at
PatchKey ==
    <<ai_analysis_loop.source, ai_analysis_loop.patches[ai_analysis_loop.i].id>>

\* C22: a store_ai_report that fails on the storage leaves the store as it
\* was and the loop goes on; a notice that is not in the store when the
\* loop comes to it, as one whose write failed in the run before, is given
\* to the analyzer again, and an analysis that gives a report is followed
\* by store_ai_report, which stores the notice when the storage works.
C22_WriteFailureRetried ==
    [][/\ (ai_analysis_loop.pc = "analyze" /\ ai_analysis_loop' # ai_analysis_loop
              /\ run'.last.upsert /\ ~run'.last.result) =>
              /\ ai_reports' = ai_reports
              /\ upserted' = upserted
              /\ ai_analysis_loop' = [ai_analysis_loop EXCEPT !.pc = "for", !.i = @ + 1]
       /\ (ai_analysis_loop.pc = "for" /\ ai_analysis_loop' # ai_analysis_loop
              /\ ai_analysis_loop.i <= Len(ai_analysis_loop.patches)
              /\ PatchKey \notin StoredKeys) =>
              (ai_analysis_loop'.pc = "analyze" /\ run'.last.analyzed)
       /\ (ai_analysis_loop.pc = "analyze" /\ ai_analysis_loop' # ai_analysis_loop
              /\ run'.last.report) =>
              /\ run'.last.upsert
              /\ run'.last.result => PatchKey \in StoredKeys']_vars

\* the first run's write of a notice failed; the second run found the
\* notice new, analyzed it and stored it
C22_Witness ==
    /\ RunEnded
    /\ cycles = 2
    /\ prev_run.stored = {}
    /\ prev_run.upserts[<<"Korean Notice", Korean1>>] = 1
    /\ run.stored = {}
    /\ run.upserts[<<"Korean Notice", Korean1>>] = 1
    /\ run.last.patch_id = Korean1 /\ run.last.analyzed /\ run.last.result
    /\ StoredKeys = {<<"Korean Notice", Korean1>>}

(***************************************************************************)
(* Properties of the dates                                                 *)
(***************************************************************************)
\* get_all_reports gave the three reports of the source, with a date in
\* dots, a date with the name of the month and a text that is no date
ScenarioListed ==
    /\ ret.op = "get_all_reports"
    /\ ret.storage
    /\ Len(ret.val) = 3
    /\ {ret.val[i].date : i \in 1..3} = {DateDots, DateName, DateGarbage}

\* C23: reports of one source with the dates "2025.08.06", "Aug 5, 2025"
\* and "unparseable-garbage" have the parsed dates 2025-08-06, 2025-08-05
\* and None, and get_all_reports gives them in this order, in whatever
\* order they were stored.
C23_ScenarioOrder ==
    ScenarioListed =>
        /\ [i \in 1..3 |-> ret.val[i].date] = <<DateDots, DateName, DateGarbage>>
        /\ [i \in 1..3 |-> ret.val[i].parsed_date] =
               << <<"2", "0", "2", "5", "-", "0", "8", "-", "0", "6">>,
                  <<"2", "0", "2", "5", "-", "0", "8", "-", "0", "5">>,
                  None >>

\* the three reports were listed after they were stored in the reverse of
\* that order
C23_Witness ==
    /\ ScenarioListed
    /\ RowOf(ret.source, ret.val[1]).id = 3
    /\ RowOf(ret.source, ret.val[2]).id = 2
    /\ RowOf(ret.source, ret.val[3]).id = 1

\* what an operation returns when the storage fails
FailureValue(op) ==
    CASE op = "store_ai_report" -> FALSE
      [] op = "mark_report_notified" -> FALSE
      [] op = "get_latest_report" -> None
      [] op = "get_report_by_index" -> None
      [] op = "get_all_reports" -> <<>>
      [] op = "get_unnotified_reports" -> <<>>
      [] op = "count_reports" -> 0

\* C24: an operation on the reports that hits a storage error returns its
\* failure value (False for store_ai_report and mark_report_notified, None
\* for get_latest_report and get_report_by_index, an empty list for
\* get_all_reports and get_unnotified_reports, 0 for count_reports) and
\* leaves the store as it was; a read never changes the store; and a
\* report stored with a text that is no date has the parsed date None.
C24_NoRaise ==
    [][(Idle /\ ~Idle') =>
          /\ ~ret'.storage =>
                 /\ ret'.val = FailureValue(ret'.op)
                 /\ UNCHANGED storeVars
          /\ ret'.op \notin {"store_ai_report", "mark_report_notified"} =>
                 UNCHANGED storeVars
          /\ \A r \in ai_reports' :
                 r.date \in {DateInvalid, DateGarbage, DateEmpty} => r.parsed_date = None]_vars

\* a read has failed on a store that holds three reports, each stored with
\* a text that is no date
C24_Witness ==
    /\ ret.op = "get_all_reports"
    /\ ~ret.storage
    /\ ret.val = <<>>
    /\ {r.date : r \in ai_reports} = {DateInvalid, DateGarbage, DateEmpty}
    /\ seq = 3

\* the configuration of every guild keeps the given field over a step
KeepsField(field) ==
    \A c \in server_configs :
        \E d \in server_configs' :
            d.guild_id = c.guild_id /\ d[field] = c[field]

\* C25: each configuration setter changes only its own field: !bdolan leaves
\* the channel of every guild as it was, so a guild that registered with
\* !usepatch is still a delivery target after !bdolan, and !usepatch leaves
\* the language of every guild as it was
C25_OwnFieldOnly ==
    [][/\ Bdolan => (KeepsField("patch_channel_id") /\ Registered \subseteq Registered')
       /\ UsePatch => KeepsField("language")]_vars

\* the date of the scan as it is described: the first number above 2000 is
\* the year, the two numbers that remain after it is taken out are month and
\* day, changing places when the month is above 12
ScanDate(numbers) ==
    LET above(i) == IntOf(numbers[i]) > 2000
        first == CHOOSE i \in 1..Len(numbers) :
                     above(i) /\ \A j \in 1..(i - 1) : ~above(j)
        remaining == [k \in 1..(Len(numbers) - 1) |->
                         IF k < first THEN numbers[k] ELSE numbers[k + 1]]
        month == IntOf(remaining[1])
        day == IntOf(remaining[2])
    IN  IF Len(numbers) < 3 \/ ~\E i \in 1..Len(numbers) : above(i) THEN None
        ELSE IF month > 12 THEN MakeDate(IntOf(numbers[first]), day, month)
        ELSE MakeDate(IntOf(numbers[first]), month, day)

\* no format and no pattern gives a date for the text of the call
ScanReached ==
    /\ ret.op = "_parse_date"
    /\ TryFormats(Strip(ret.date_str)) = None
    /\ TryPatterns(Strip(ret.date_str)) = None

\* C26: when no format matches, _parse_date returns the date of the scan:
\* with three numbers or more, the first number above 2000 as the year and
\* the remaining two as month and day, swapped when the month is above 12;
\* it returns None with fewer than three numbers, with no number above 2000
\* and when that date is not a date of the calendar
C26_FallbackScan ==
    ScanReached =>
        LET date == ScanDate(FindNumbers(ret.date_str, 1))
        IN  ret.val = IF date = None THEN None ELSE strftime(date)

\* the keys of the list the run of notification_loop has read
ReadKeys ==
    {<<notification_loop.unnotified_reports[i].source,
       notification_loop.unnotified_reports[i].patch_id>> :
         i \in 1..Len(notification_loop.unnotified_reports)}

\* C27: a report stored by ai_analysis_loop while a run of notification_loop
\* is between its read and a mark is not in the list of the run, and no step
\* of the run touches it: the run changes the reports only by the mark of
\* the report it is at, a report of its list, when every server of the run
\* has had its attempt for that report; every other report, the new one
\* among them, keeps all its fields and stays not notified
C27_NewReportUntouched ==
    [][(InRun /\ notification_loop' # notification_loop) =>
          /\ \A r \in ai_reports :
                 <<r.source, r.patch_id>> \notin ReadKeys => r \in ai_reports'
          /\ ai_reports' # ai_reports =>
                 /\ BeforeMark
                 /\ ReportKey \in ReadKeys
                 /\ Len(notification_loop.attempts)
                        = Len(notification_loop.configured_servers)
                 /\ \A r \in ai_reports :
                        <<r.source, r.patch_id>> # ReportKey => r \in ai_reports'
      ]_vars

\* a run that read one report stands before its mark, after an attempt, and
\* a report of another key, stored since the read, is not notified
C27_Witness ==
    /\ BeforeMark
    /\ Len(notification_loop.unnotified_reports) = 1
    /\ Len(notification_loop.attempts) = 1
    /\ \E r \in ai_reports :
           /\ <<r.source, r.patch_id>> \notin ReadKeys
           /\ ~r.is_notified
           /\ r.generated_at > notification_loop.read_at[1]

\* the row is whole: the columns are those of the notice kept in the row,
\* and the name of the report's file is there
Complete(r) ==
    /\ r.report_filename # None
    /\ r.patch_id = r.patch_data.id
    /\ r.source = r.patch_data.source
    /\ r.title = r.patch_data.title
    /\ r.link = r.patch_data.link
    /\ r.date = r.patch_data.date
    /\ r.report_filename = Filename(r.patch_data, r.generated_at)

\* C28: every report of the store is whole, has the name of its report's
\* file and was written by a store that returned True; and a report is
\* written only by the step of ai_analysis_loop in which generate_deep_report
\* gave a file name for the notice the loop is at, as the one row
\* store_ai_report makes of that notice: never after an analysis
\* that raised, gave no text or could not save its file, and never by a run
\* that was cut before its store
C28_CompleteReports ==
    /\ [](\A r \in ai_reports : Complete(r) /\ <<r.source, r.patch_id>> \in upserted)
    /\ [][ai_reports' # ai_reports =>
             /\ ai_analysis_loop.pc = "analyze"
             /\ run'.last.analyzed /\ run'.last.report /\ run'.last.result
             /\ ai_reports' \ ai_reports =
                    {NewRow(seq', ai_analysis_loop.patches[ai_analysis_loop.i],
                            Filename(ai_analysis_loop.patches[ai_analysis_loop.i], now),
                            ai_analysis_loop.source)}]_vars

\* ai_analysis_loop is between two runs; the last notice it came to was to
\* be analyzed and was not stored, and the store holds the report of
\* another notice
C28_Witness ==
    /\ ai_analysis_loop.pc = "sleep"
    /\ run.last.source # "none"
    /\ run.last.analyzed /\ ~run.last.upsert
    /\ Conflicting(run.last.source, run.last.patch_id) = {}
    /\ ai_reports # {}

\* C29: with notification_loop scheduled and the reads and writes working in
\* the end, every report that is stored not notified is notified later:
\* also a report stored while a run of notification_loop is under way, and
\* a report stored when no guild is registered
C29_EventuallyNotified ==
    \A key \in {<<"Global Labs", Global1>>, <<"Korean Notice", Korean1>>} :
        (\E r \in ai_reports : <<r.source, r.patch_id>> = key /\ ~r.is_notified)
            ~> (\E r \in ai_reports : <<r.source, r.patch_id>> = key /\ r.is_notified)

\* no guild has registered, and the reports of both sources are notified
C29_Witness ==
    /\ server_configs = {}
    /\ {r.source : r \in ai_reports} = Sources
    /\ \A r \in ai_reports : r.is_notified

\* ai_analysis_loop is at a notice of its listing, before is_report_new
AtNotice ==
    /\ ai_analysis_loop.pc = "for"
    /\ ai_analysis_loop.i <= Len(ai_analysis_loop.patches)

\* the rows of the notice ai_analysis_loop is at
StoredNotice ==
    Conflicting(ai_analysis_loop.source,
                ai_analysis_loop.patches[ai_analysis_loop.i].id)

\* C30: is_report_new fails open: at every notice of its listing, stored or
\* not, notified or not, ai_analysis_loop can go on to the analysis (the
\* check answering True on a storage error); and the store that follows an
\* analysis of a stored notice puts one new row in the place of the old
\* one, with generated_at of the time of the store and is_notified false
C30_FailsOpen ==
    /\ [](AtNotice => ENABLED (AiFor(FALSE) /\ ai_analysis_loop'.pc = "analyze"))
    /\ [][(ai_analysis_loop.pc = "analyze" /\ seq' # seq) =>
             /\ ai_reports' \cap StoredNotice = {}
             /\ Cardinality(ai_reports' \ ai_reports) = 1
             /\ \A r \in ai_reports' \ ai_reports :
                    /\ r.source = ai_analysis_loop.source
                    /\ r.patch_id = ai_analysis_loop.patches[ai_analysis_loop.i].id
                    /\ r.generated_at = now
                    /\ ~r.is_notified
                    /\ \A q \in StoredNotice : q.id < r.id /\ q.generated_at <= r.generated_at
          ]_vars

\* the analysis of a notice is under way whose report, written at an
\* earlier time, is stored and notified, and the store can follow
C30_Witness ==
    /\ ai_analysis_loop.pc = "analyze"
    /\ seq < MaxSeq
    /\ \E r \in StoredNotice : r.is_notified /\ r.generated_at < now


====
